---------------------------- MODULE Spec2Model ----------------------------
(***************************************************************************)
(* Model of the multi-score scoring engine (calculateMultiScore and the    *)
(* scorers and helpers it calls).                                          *)
(*                                                                         *)
(* Representation of JavaScript values:                                    *)
(*   - a string is a sequence of one-character strings, so that            *)
(*     toLowerCase / toUpperCase / includes are computed, not assumed;     *)
(*   - a value that may be undefined or null is a tagged record            *)
(*     [k |-> kind, v |-> payload]  (Undefined, Null, Num(n), Arr(s),      *)
(*     Str(s));                                                            *)
(*   - a weight is held in hundredths (0.35 is 35) and a currency rate in  *)
(*     thousandths, and Math.round is computed on the exact rational.      *)
(*                                                                         *)
(* The module also holds the legacy keyword scorer                         *)
(* (computeVisaFromNormalized), the two ingest handlers that write the     *)
(* job_raw table, the registry import script, the profile API and the      *)
(* increment endpoint; each has its own variables and its own              *)
(* specification.                                                          *)
(***************************************************************************)
EXTENDS Integers, Sequences, FiniteSets, TLC

\* the scoring caller: its inputs, the result of its call, and its position
VARIABLES job, profile, visaIntel, config, result, pc

\* how the platform's double arithmetic rounds the weighted sum of these inputs
\* when the exact sum lies half-way between two integers
VARIABLE tieUp

\* a repeated call: the result of a call on other inputs made in between, the
\* sub-scores of the second call as far as they are evaluated, and its result
VARIABLES between, parts, again

\* the legacy keyword scorer: its inputs and its result
VARIABLES normalized, companyRegistry, legacy

\* the ingest handlers: the rows of job_raw, the bulk request and the manual requests
VARIABLES job_raw, bulk, manual

\* the registry import script: the rows of visa_sponsor_registry and the run of the script
VARIABLES visa_sponsor_registry, importRun

\* the profile API: the rows of user_profile and profile_versions and the save requests
VARIABLES user_profile, profile_versions, saves

\* the increment endpoint: the counter row and the requests
VARIABLES counter, increments

inputVars == <<job, profile, visaIntel, config>>

repeatVars == <<between, parts, again>>

legacyVars == <<normalized, companyRegistry, legacy>>

ingestVars == <<job_raw, bulk, manual>>

serviceVars == <<visa_sponsor_registry, importRun, user_profile, profile_versions, saves, counter, increments>>

vars == <<job, profile, visaIntel, config, result, pc, tieUp, between, parts, again, normalized, companyRegistry, legacy, job_raw, bulk, manual,
         visa_sponsor_registry, importRun, user_profile, profile_versions, saves, counter, increments>>

----------------------------------------------------------------------------
(* JavaScript values *)

Undefined == [k |-> "undefined", v |-> <<>>]

Null == [k |-> "null", v |-> <<>>]

Num(n) == [k |-> "number", v |-> <<n>>]

Arr(s) == [k |-> "array", v |-> s]

Str(s) == [k |-> "string", v |-> s]

IsNum(x) == x.k = "number"

NumVal(x) == x.v[1]

\* JS truthiness of a value that is undefined, null or a number
TruthyNum(x) == IsNum(x) /\ NumVal(x) # 0

\* x || d   for a numeric x
OrNum(x, d) == IF TruthyNum(x) THEN NumVal(x) ELSE d

\* (x || [])   for an array x : the array itself, or the empty array
OrEmptyArr(x) == IF x.k = "array" THEN x.v ELSE <<>>

\* (x || '')   for a string x
OrEmptyStr(x) == IF x.k = "string" THEN x.v ELSE <<>>

Min(a, b) == IF a <= b THEN a ELSE b

Max(a, b) == IF a >= b THEN a ELSE b

\* Math.round(n / d) for n >= 0, d > 0 : nearest integer, ties upwards
RoundDiv(n, d) == (2 * n + d) \div (2 * d)

\* Math.round of a sum of double products whose exact value is n / d.  Away from a tie the
\* double rounds as the exact value does.  At an exact tie (k + 0.5) the products' rounding
\* errors decide: the double is the tie itself or lies just under it (90 * 0.35 is
\* 31.499999999999996), so both roundings are outcomes; halfUp names the one taken.
RoundDouble(n, d, halfUp) == IF (2 * n) % (2 * d) = d /\ ~halfUp THEN n \div d ELSE RoundDiv(n, d)

----------------------------------------------------------------------------
(* Strings *)

UpperChars == <<"A","B","C","D","E","F","G","H","I","J","K","L","M","N","O","P","Q","R","S","T","U","V","W","X","Y","Z">>

LowerChars == <<"a","b","c","d","e","f","g","h","i","j","k","l","m","n","o","p","q","r","s","t","u","v","w","x","y","z">>

\* the lower-case letter of each upper-case letter, and the reverse
LowerOf == [c \in {UpperChars[i] : i \in 1..26} |-> LowerChars[CHOOSE i \in 1..26 : UpperChars[i] = c]]

UpperOf == [c \in {LowerChars[i] : i \in 1..26} |-> UpperChars[CHOOSE i \in 1..26 : LowerChars[i] = c]]

\* s.toLowerCase() : letters A-Z are mapped, every other character is kept
toLowerCase(s) == [i \in 1..Len(s) |-> IF s[i] \in DOMAIN LowerOf THEN LowerOf[s[i]] ELSE s[i]]

\* s.toUpperCase()
toUpperCase(s) == [i \in 1..Len(s) |-> IF s[i] \in DOMAIN UpperOf THEN UpperOf[s[i]] ELSE s[i]]

\* hay.includes(needle)
includes(hay, needle) == \E i \in 0..(Len(hay) - Len(needle)) : SubSeq(hay, i + 1, i + Len(needle)) = needle

\* list.map(f) for a sequence of strings
MapLower(list) == [i \in 1..Len(list) |-> toLowerCase(list[i])]

MapUpper(list) == [i \in 1..Len(list) |-> toUpperCase(list[i])]

\* Variant of getMatchedSkills: a user skill matched only when a job tag contains it
RECURSIVE getMatchedSkills_oneWay(_, _)
getMatchedSkills_oneWay(userSkills, jobSkills) ==
    IF userSkills = <<>> THEN <<>>
    ELSE LET us == Head(userSkills)
             hit == \E n \in 1..Len(jobSkills) : includes(jobSkills[n], us)
         IN  (IF hit THEN <<us>> ELSE <<>>) \o getMatchedSkills_oneWay(Tail(userSkills), jobSkills)

\* userSkills.filter(us => jobSkills.some(js => js.includes(us) || us.includes(js)))
RECURSIVE getMatchedSkills(_, _)
getMatchedSkills(userSkills, jobSkills) ==
    IF userSkills = <<>> THEN <<>>
    ELSE LET us == Head(userSkills)
             hit == \E n \in 1..Len(jobSkills) : includes(jobSkills[n], us) \/ includes(us, jobSkills[n])
         IN  (IF hit THEN <<us>> ELSE <<>>) \o getMatchedSkills(Tail(userSkills), jobSkills)

\* Variant of calculateSkillMatch: an empty tier counted as fully matched
calculateSkillMatch_vacuous(userSkills, jobSkills) ==
    IF Len(userSkills) = 0 THEN 100
    ELSE RoundDiv(Len(getMatchedSkills(userSkills, jobSkills)) * 100, Len(userSkills))

calculateSkillMatch(userSkills, jobSkills) ==
    IF Len(userSkills) = 0 THEN 0
    ELSE RoundDiv(Len(getMatchedSkills(userSkills, jobSkills)) * 100, Len(userSkills))

----------------------------------------------------------------------------
(* Lookup tables *)

\* rates of normalizeSalaryToGBP, in thousandths; 0 stands for "no entry"
RateMilli(currency) ==
    CASE currency = Str(<<"G","B","P">>) -> 1000
      [] currency = Str(<<"U","S","D">>) -> 790
      [] currency = Str(<<"E","U","R">>) -> 850
      [] currency = Str(<<"A","U","D">>) -> 520
      [] currency = Str(<<"C","A","D">>) -> 580
      [] currency = Str(<<"S","E","K">>) -> 74
      [] currency = Str(<<"A","E","D">>) -> 210
      [] OTHER -> 0

\* amount * (rates[currency] || 1), in thousandths of the reference currency
normalizeSalaryToGBP(amount, currency) == amount * (IF RateMilli(currency) # 0 THEN RateMilli(currency) ELSE 1000)

\* countryThresholds[job.country_code]; 0 stands for undefined
countryThresholds(code) ==
    CASE code = Str(<<"G","B">>) -> 38700
      [] code = Str(<<"N","L">>) -> 45000
      [] code = Str(<<"D","E">>) -> 45300
      [] code = Str(<<"S","E">>) -> 156000
      [] code = Str(<<"A","U">>) -> 70000
      [] code = Str(<<"C","A">>) -> 54000
      [] OTHER -> 0

\* Variant of checkSalaryThreshold: the Swedish threshold compared without its conversion from SEK
checkSalaryThreshold_unconverted(j, p) ==
    LET threshold == countryThresholds(j.country_code)
    IN  IF threshold = 0 \/ ~TruthyNum(j.salary_min)
        THEN [meets_threshold |-> FALSE, close_to_threshold |-> FALSE]
        ELSE LET jobSalaryGBP == normalizeSalaryToGBP(NumVal(j.salary_min), j.salary_currency)
                 thresholdGBP == normalizeSalaryToGBP(threshold, Str(<<"G","B","P">>))
             IN  IF jobSalaryGBP >= thresholdGBP
                 THEN [meets_threshold |-> TRUE, close_to_threshold |-> FALSE]
                 ELSE IF 10 * jobSalaryGBP >= 9 * thresholdGBP
                 THEN [meets_threshold |-> FALSE, close_to_threshold |-> TRUE]
                 ELSE [meets_threshold |-> FALSE, close_to_threshold |-> FALSE]

checkSalaryThreshold(j, p) ==
    LET threshold == countryThresholds(j.country_code)
    IN  IF threshold = 0 \/ ~TruthyNum(j.salary_min)
        THEN [meets_threshold |-> FALSE, close_to_threshold |-> FALSE]
        ELSE LET jobSalaryGBP == normalizeSalaryToGBP(NumVal(j.salary_min), j.salary_currency)
                 thresholdGBP == normalizeSalaryToGBP(threshold, IF j.country_code = Str(<<"S","E">>) THEN Str(<<"S","E","K">>) ELSE Str(<<"G","B","P">>))
             IN  IF jobSalaryGBP >= thresholdGBP
                 THEN [meets_threshold |-> TRUE, close_to_threshold |-> FALSE]
                 ELSE IF 10 * jobSalaryGBP >= 9 * thresholdGBP
                 THEN [meets_threshold |-> FALSE, close_to_threshold |-> TRUE]
                 ELSE [meets_threshold |-> FALSE, close_to_threshold |-> FALSE]

getRating(score) ==
    IF score >= 90 THEN "EXCELLENT"
    ELSE IF score >= 80 THEN "STRONG"
    ELSE IF score >= 70 THEN "GOOD"
    ELSE IF score >= 60 THEN "FAIR"
    ELSE IF score >= 50 THEN "WEAK"
    ELSE "POOR"

----------------------------------------------------------------------------
(* calculateVisaScore: five additive factors, one penalty *)

\* 1. Official Registry Match (40 points)
registryMatchFactor(vi) ==
    IF vi.registry_match THEN [score |-> 40, status |-> "confirmed"]
    ELSE [score |-> 0, status |-> "not_found"]

\* Variant of recentActivityFactor: the legacy formula of the archived scorer (3 per sponsorship, cap 15)
recentActivityFactor_legacy(vi) ==
    IF vi.recent_activity
    THEN [score |-> Min(15, vi.recent_activity_count * 3), count |-> vi.recent_activity_count, status |-> "active"]
    ELSE [score |-> 0, status |-> "unknown"]

\* Variant of recentActivityFactor: the 20-point cap forgotten
recentActivityFactor_uncapped(vi) ==
    IF vi.recent_activity
    THEN [score |-> vi.recent_activity_count * 5, count |-> vi.recent_activity_count, status |-> "active"]
    ELSE [score |-> 0, status |-> "unknown"]

\* 2. Recent Sponsorship Activity (20 points), read only under the recent_activity flag
recentActivityFactor(vi) ==
    IF vi.recent_activity
    THEN [score |-> Min(20, vi.recent_activity_count * 5), count |-> vi.recent_activity_count, status |-> "active"]
    ELSE [score |-> 0, status |-> "unknown"]

\* Variant of communitySignalsFactor: negative signals netted against positive ones
communitySignalsFactor_net(vi) ==
    IF vi.community_signals.k = "object"
    THEN [score |-> Max(0, Min(20, (vi.community_signals.positive_count - vi.community_signals.negative_count) * 2)),
          positive |-> vi.community_signals.positive_count,
          negative |-> vi.community_signals.negative_count]
    ELSE [score |-> 0, status |-> "no_data"]

\* 3. Community Intelligence (20 points); community_signals is Null or a record
communitySignalsFactor(vi) ==
    IF vi.community_signals.k = "object"
    THEN [score |-> Min(20, vi.community_signals.positive_count * 2),
          positive |-> vi.community_signals.positive_count,
          negative |-> vi.community_signals.negative_count]
    ELSE [score |-> 0, status |-> "no_data"]

\* 4. JD Keywords (10 points)
jdKeywordsFactor(vi) ==
    IF vi.jd_keywords_found THEN [score |-> 10, status |-> "explicit_mention"]
    ELSE [score |-> 0, status |-> "not_mentioned"]

\* 5. Salary Threshold Check (10 points)
salaryThresholdFactor(j, p) ==
    LET salaryCheck == checkSalaryThreshold(j, p)
    IN  IF salaryCheck.meets_threshold THEN [score |-> 10, status |-> "above_minimum"]
        ELSE IF salaryCheck.close_to_threshold THEN [score |-> 5, status |-> "close_to_minimum"]
        ELSE [score |-> 0, status |-> "below_minimum"]

\* Variant of visaPenalties: the 15-point penalty of the archived scorer
visaPenalties_legacy(vi) == IF vi.explicit_no_sponsorship THEN 15 ELSE 0

\* Penalties: 30 when explicit_no_sponsorship
visaPenalties(vi) == IF vi.explicit_no_sponsorship THEN 30 ELSE 0

\* Variant of applyPenalties: the floor at 0 forgotten
applyPenalties_nofloor(score, penalties) == score - penalties

\* score = Math.max(0, score - penalties)
applyPenalties(score, penalties) == Max(0, score - penalties)

calculateVisaScore(j, vi, p) ==
    LET registry == registryMatchFactor(vi)
        activity == recentActivityFactor(vi)
        community == communitySignalsFactor(vi)
        keywords == jdKeywordsFactor(vi)
        salary == salaryThresholdFactor(j, p)
        penalties == visaPenalties(vi)
        score == applyPenalties(registry.score + activity.score + community.score + keywords.score + salary.score, penalties)
    IN  [total |-> Min(100, score),
         breakdown |-> [registry_match |-> registry,
                        recent_activity |-> activity,
                        community_signals |-> community,
                        jd_keywords |-> keywords,
                        salary_threshold |-> salary,
                        penalties |-> IF vi.explicit_no_sponsorship
                                      THEN Arr(<<[reason |-> "explicit_no_sponsorship", points |-> -30]>>)
                                      ELSE Undefined],
         rating |-> getRating(score)]

----------------------------------------------------------------------------
(* calculateResumeMatchScore: four skill tiers *)

\* Variant of tierScore: the doubling left out
tierScore_uncalibrated(maxPoints, weight, matchPct) == RoundDiv(maxPoints * weight * matchPct, 10000)

\* Math.round(maxPoints * weight * 2 * (matchPct / 100)), weight in hundredths.  On the weights
\* and percentages of the input domains below the double product is the exact value.
tierScore(maxPoints, weight, matchPct) == RoundDiv(maxPoints * weight * 2 * matchPct, 10000)

skillTier(maxPoints, weight, userSkills, jobSkills) ==
    LET matchPct == calculateSkillMatch(userSkills, jobSkills)
    IN  [score |-> tierScore(maxPoints, weight, matchPct),
         max |-> maxPoints,
         match_percentage |-> matchPct,
         matched_skills |-> getMatchedSkills(userSkills, jobSkills)]

\* Variant of resumeTotal: the cap at 100 forgotten
resumeTotal_uncapped(score) == score

\* Math.min(100, score) of the resume scorer
resumeTotal(score) == Min(100, score)

calculateResumeMatchScore(j, p, weights) ==
    LET jobSkills == MapLower(OrEmptyArr(j.skills))
        jobDomains == MapLower(OrEmptyArr(j.domains))
        domain == skillTier(50, weights.domain_skills_weight, MapLower(OrEmptyArr(p.skills_must_have_domain)), jobSkills \o jobDomains)
        pm == skillTier(30, weights.core_pm_skills_weight, MapLower(OrEmptyArr(p.skills_must_have_core_pm)), jobSkills)
        tools == skillTier(15, weights.tools_skills_weight, MapLower(OrEmptyArr(p.skills_good_to_have)), jobSkills)
        tech == skillTier(5, weights.tech_skills_weight, MapLower(OrEmptyArr(p.skills_okay_to_have)), jobSkills)
        score == domain.score + pm.score + tools.score + tech.score
    IN  [total |-> resumeTotal(score),
         breakdown |-> [domain_match |-> domain, core_pm_match |-> pm, tools_match |-> tools, technical_match |-> tech],
         rating |-> getRating(score)]

----------------------------------------------------------------------------
(* calculateJobRelevanceScore: five factors *)

\* array.includes(x) / array.some(...) over a sequence
InSeq(list, x) == \E n \in 1..Len(list) : list[n] = x

calculateLocationMatch(j, p) ==
    LET jobLocation == toLowerCase(OrEmptyStr(j.location))
        jobCountry == toUpperCase(OrEmptyStr(j.country_code))
        preferredLocations == MapLower(OrEmptyArr(p.preferred_locations))
        targetCountries == MapUpper(OrEmptyArr(p.target_countries))
    IN  IF \E n \in 1..Len(preferredLocations) : includes(jobLocation, preferredLocations[n])
        THEN [score |-> 25, match_type |-> "preferred_city", location |-> jobLocation]
        ELSE IF InSeq(targetCountries, jobCountry)
        THEN [score |-> 20, match_type |-> "target_country", country |-> jobCountry]
        ELSE IF j.is_remote
        THEN [score |-> 15, match_type |-> "remote", location |-> <<"r","e","m","o","t","e">>]
        ELSE [score |-> 0, match_type |-> "no_match", location |-> jobLocation]

\* jobSalaryGBP <= maxExpected, with null read as 0 and undefined as NaN
LeqMax(salaryMilli, maxExpected) ==
    CASE IsNum(maxExpected) -> salaryMilli <= 1000 * NumVal(maxExpected)
      [] maxExpected.k = "null" -> salaryMilli <= 0
      [] OTHER -> FALSE

\* jobSalaryGBP > maxExpected, with null read as 0 and undefined as NaN
GtMax(salaryMilli, maxExpected) ==
    CASE IsNum(maxExpected) -> salaryMilli > 1000 * NumVal(maxExpected)
      [] maxExpected.k = "null" -> salaryMilli > 0
      [] OTHER -> FALSE

\* Variant of calculateSalaryMatch: incomplete salary data scored 0 instead of the neutral 12
calculateSalaryMatch_penalising(j, p) ==
    LET expectation == IF p.salary_expectation.k = "object" THEN p.salary_expectation ELSE [k |-> "object", min |-> Undefined, max |-> Undefined]
    IN  IF ~TruthyNum(expectation.min) \/ ~TruthyNum(j.salary_min)
        THEN [score |-> 0, match_type |-> "unknown"]
        ELSE [score |-> 25, match_type |-> "in_range", job_salary |-> normalizeSalaryToGBP(NumVal(j.salary_min), j.salary_currency)]

calculateSalaryMatch(j, p) ==
    LET expectation == IF p.salary_expectation.k = "object" THEN p.salary_expectation ELSE [k |-> "object", min |-> Undefined, max |-> Undefined]
    IN  IF ~TruthyNum(expectation.min) \/ ~TruthyNum(j.salary_min)
        THEN [score |-> 12, match_type |-> "unknown"]
        ELSE LET jobSalaryGBP == normalizeSalaryToGBP(NumVal(j.salary_min), j.salary_currency)
                 minExpected == NumVal(expectation.min)
                 maxExpected == expectation.max
             IN  IF jobSalaryGBP >= 1000 * minExpected /\ LeqMax(jobSalaryGBP, maxExpected)
                 THEN [score |-> 25, match_type |-> "in_range", job_salary |-> jobSalaryGBP]
                 ELSE IF GtMax(jobSalaryGBP, maxExpected)
                 THEN [score |-> 25, match_type |-> "above_range", job_salary |-> jobSalaryGBP]
                 ELSE IF 10 * jobSalaryGBP >= 9 * 1000 * minExpected
                 THEN [score |-> 15, match_type |-> "slightly_below", job_salary |-> jobSalaryGBP]
                 ELSE [score |-> 0, match_type |-> "below_minimum", job_salary |-> jobSalaryGBP]

roleKeywords == << <<"p","r","o","d","u","c","t">>, <<"m","a","n","a","g","e","r">>, <<"p","m">>, <<"l","e","a","d">> >>

\* Variant of calculateRoleMatch: a role matched only when the title contains it
calculateRoleMatch_titleOnly(j, p) ==
    LET jobTitle == toLowerCase(OrEmptyStr(j.title))
        flexibility == IF p.role_flexibility.k = "object" THEN p.role_flexibility ELSE [k |-> "object", preferred |-> Arr(<<>>), acceptable |-> Arr(<<>>)]
        preferredRoles == MapLower(OrEmptyArr(flexibility.preferred))
        acceptableRoles == MapLower(OrEmptyArr(flexibility.acceptable))
    IN  IF \E n \in 1..Len(preferredRoles) : includes(jobTitle, preferredRoles[n])
        THEN [score |-> 25, match_type |-> "preferred", role |-> jobTitle]
        ELSE IF \E n \in 1..Len(acceptableRoles) : includes(jobTitle, acceptableRoles[n])
        THEN [score |-> 20, match_type |-> "acceptable", role |-> jobTitle]
        ELSE IF \E n \in 1..Len(roleKeywords) : includes(jobTitle, roleKeywords[n])
        THEN [score |-> 10, match_type |-> "partial", role |-> jobTitle]
        ELSE [score |-> 0, match_type |-> "no_match", role |-> jobTitle]

calculateRoleMatch(j, p) ==
    LET jobTitle == toLowerCase(OrEmptyStr(j.title))
        flexibility == IF p.role_flexibility.k = "object" THEN p.role_flexibility ELSE [k |-> "object", preferred |-> Arr(<<>>), acceptable |-> Arr(<<>>)]
        preferredRoles == MapLower(OrEmptyArr(flexibility.preferred))
        acceptableRoles == MapLower(OrEmptyArr(flexibility.acceptable))
    IN  IF \E n \in 1..Len(preferredRoles) : includes(jobTitle, preferredRoles[n]) \/ includes(preferredRoles[n], jobTitle)
        THEN [score |-> 25, match_type |-> "preferred", role |-> jobTitle]
        ELSE IF \E n \in 1..Len(acceptableRoles) : includes(jobTitle, acceptableRoles[n]) \/ includes(acceptableRoles[n], jobTitle)
        THEN [score |-> 20, match_type |-> "acceptable", role |-> jobTitle]
        ELSE IF \E n \in 1..Len(roleKeywords) : includes(jobTitle, roleKeywords[n])
        THEN [score |-> 10, match_type |-> "partial", role |-> jobTitle]
        ELSE [score |-> 0, match_type |-> "no_match", role |-> jobTitle]

calculateExperienceMatch(j, p) ==
    LET userExp == OrNum(p.years_of_experience, 0)
        jobExpMin == OrNum(j.experience_min, 0)
        jobExpMax == OrNum(j.experience_max, 99)
    IN  IF userExp >= jobExpMin /\ userExp <= jobExpMax
        THEN [score |-> 15, match_type |-> "perfect", user_exp |-> userExp]
        ELSE IF userExp > jobExpMax /\ userExp <= jobExpMax + 2
        THEN [score |-> 12, match_type |-> "slightly_over", user_exp |-> userExp]
        ELSE IF userExp < jobExpMin /\ userExp >= jobExpMin - 2
        THEN [score |-> 10, match_type |-> "slightly_under", user_exp |-> userExp]
        ELSE [score |-> 0, match_type |-> "mismatch", user_exp |-> userExp]

commonIndustries == << <<"f","i","n","t","e","c","h">>, <<"f","i","n","a","n","c","e">>, <<"b","a","n","k","i","n","g">>, <<"p","a","y","m","e","n","t","s">>, <<"t","e","c","h">> >>

\* Variant of calculateIndustryMatch: the lists compared as written, without lower-casing
calculateIndustryMatch_caseSensitive(j, p) ==
    LET jobDomains == OrEmptyArr(j.domains)
        userIndustries == OrEmptyArr(p.industries)
    IN  IF \E n \in 1..Len(userIndustries) : InSeq(jobDomains, userIndustries[n])
        THEN [score |-> 10, match_type |-> "perfect", industries |-> jobDomains]
        ELSE IF \E n \in 1..Len(commonIndustries) : InSeq(jobDomains, commonIndustries[n]) /\ InSeq(userIndustries, commonIndustries[n])
        THEN [score |-> 7, match_type |-> "related", industries |-> jobDomains]
        ELSE [score |-> 3, match_type |-> "neutral", industries |-> jobDomains]

\* Variant of calculateIndustryMatch: a common keyword looked for inside the entries of both lists
calculateIndustryMatch_byKeyword(j, p) ==
    LET jobDomains == MapLower(OrEmptyArr(j.domains))
        userIndustries == MapLower(OrEmptyArr(p.industries))
    IN  IF \E n \in 1..Len(userIndustries) : InSeq(jobDomains, userIndustries[n])
        THEN [score |-> 10, match_type |-> "perfect", industries |-> jobDomains]
        ELSE IF \E n \in 1..Len(commonIndustries) :
                    /\ \E d \in 1..Len(jobDomains) : includes(jobDomains[d], commonIndustries[n])
                    /\ \E u \in 1..Len(userIndustries) : includes(userIndustries[u], commonIndustries[n])
        THEN [score |-> 7, match_type |-> "related", industries |-> jobDomains]
        ELSE [score |-> 3, match_type |-> "neutral", industries |-> jobDomains]

\* Variant of calculateIndustryMatch: the user's industries taken from the domain skill tier
calculateIndustryMatch_bySkills(j, p) ==
    LET jobDomains == MapLower(OrEmptyArr(j.domains))
        userIndustries == MapLower(OrEmptyArr(p.skills_must_have_domain))
    IN  IF \E n \in 1..Len(userIndustries) : InSeq(jobDomains, userIndustries[n])
        THEN [score |-> 10, match_type |-> "perfect", industries |-> jobDomains]
        ELSE IF \E n \in 1..Len(commonIndustries) : InSeq(jobDomains, commonIndustries[n]) /\ InSeq(userIndustries, commonIndustries[n])
        THEN [score |-> 7, match_type |-> "related", industries |-> jobDomains]
        ELSE [score |-> 3, match_type |-> "neutral", industries |-> jobDomains]

calculateIndustryMatch(j, p) ==
    LET jobDomains == MapLower(OrEmptyArr(j.domains))
        userIndustries == MapLower(OrEmptyArr(p.industries))
    IN  IF \E n \in 1..Len(userIndustries) : InSeq(jobDomains, userIndustries[n])
        THEN [score |-> 10, match_type |-> "perfect", industries |-> jobDomains]
        ELSE IF \E n \in 1..Len(commonIndustries) : InSeq(jobDomains, commonIndustries[n]) /\ InSeq(userIndustries, commonIndustries[n])
        THEN [score |-> 7, match_type |-> "related", industries |-> jobDomains]
        ELSE [score |-> 3, match_type |-> "neutral", industries |-> jobDomains]

calculateJobRelevanceScore(j, p) ==
    LET locationScore == calculateLocationMatch(j, p)
        salaryScore == calculateSalaryMatch(j, p)
        roleScore == calculateRoleMatch(j, p)
        experienceScore == calculateExperienceMatch(j, p)
        industryScore == calculateIndustryMatch(j, p)
        score == locationScore.score + salaryScore.score + roleScore.score + experienceScore.score + industryScore.score
    IN  [total |-> Min(100, score),
         breakdown |-> [location |-> locationScore, salary |-> salaryScore, role |-> roleScore,
                        experience |-> experienceScore, industry |-> industryScore],
         rating |-> getRating(score)]

----------------------------------------------------------------------------
(* calculateMultiScore: the aggregate and its recommendation *)

\* Variant of getRecommendation: the first row's bounds exclusive
getRecommendation_exclusive(overallScore, visaScore, resumeScore) ==
    IF overallScore > 85 /\ visaScore > 80
    THEN [action |-> "APPLY NOW", priority |-> "HIGH", confidence |-> "Very High"]
    ELSE IF overallScore >= 75 /\ visaScore >= 60
    THEN [action |-> "STRONGLY CONSIDER", priority |-> "HIGH", confidence |-> "High"]
    ELSE IF overallScore >= 65
    THEN [action |-> "CONSIDER", priority |-> "MEDIUM", confidence |-> "Moderate"]
    ELSE IF overallScore >= 50
    THEN [action |-> "REVIEW CAREFULLY", priority |-> "LOW", confidence |-> "Low"]
    ELSE [action |-> "SKIP", priority |-> "VERY LOW", confidence |-> "Very Low"]

getRecommendation(overallScore, visaScore, resumeScore) ==
    IF overallScore >= 85 /\ visaScore >= 80
    THEN [action |-> "APPLY NOW", priority |-> "HIGH", confidence |-> "Very High"]
    ELSE IF overallScore >= 75 /\ visaScore >= 60
    THEN [action |-> "STRONGLY CONSIDER", priority |-> "HIGH", confidence |-> "High"]
    ELSE IF overallScore >= 65
    THEN [action |-> "CONSIDER", priority |-> "MEDIUM", confidence |-> "Moderate"]
    ELSE IF overallScore >= 50
    THEN [action |-> "REVIEW CAREFULLY", priority |-> "LOW", confidence |-> "Low"]
    ELSE [action |-> "SKIP", priority |-> "VERY LOW", confidence |-> "Very Low"]

\* config.<key> || default : an absent weight and a weight of 0 both give the default
weightOrDefault(w, default) == OrNum(w, default)

defaultWeights(cfg) ==
    [visa_score_weight |-> weightOrDefault(cfg.visa_score_weight, 40),
     resume_score_weight |-> weightOrDefault(cfg.resume_score_weight, 35),
     relevance_score_weight |-> weightOrDefault(cfg.relevance_score_weight, 25),
     domain_skills_weight |-> weightOrDefault(cfg.domain_skills_weight, 50),
     core_pm_skills_weight |-> weightOrDefault(cfg.core_pm_skills_weight, 30),
     tools_skills_weight |-> weightOrDefault(cfg.tools_skills_weight, 15),
     tech_skills_weight |-> weightOrDefault(cfg.tech_skills_weight, 5)]

\* Math.round(visa * Wv + resume * Wr + relevance * Wl), weights in hundredths
weightedOverall(visaTotal, resumeScoreTotal, relevanceTotal, weights, halfUp) ==
    RoundDouble(visaTotal * weights.visa_score_weight + resumeScoreTotal * weights.resume_score_weight + relevanceTotal * weights.relevance_score_weight, 100, halfUp)

\* Variant of clampOverall: the clamp forgotten
clampOverall_unclamped(overallScore) == overallScore

\* overall_score: Math.min(100, Math.max(0, overallScore))
clampOverall(overallScore) == Min(100, Max(0, overallScore))

\* the part of calculateMultiScore that follows the three sub-scorers
combineScores(visaScore, resumeScore, relevanceScore, weights, halfUp) ==
    LET overallScore == weightedOverall(visaScore.total, resumeScore.total, relevanceScore.total, weights, halfUp)
    IN  [overall_score |-> clampOverall(overallScore),
         visa_score |-> visaScore.total,
         resume_match_score |-> resumeScore.total,
         job_relevance_score |-> relevanceScore.total,
         recommendation |-> getRecommendation(overallScore, visaScore.total, resumeScore.total),
         breakdown |-> [visa |-> visaScore, resume |-> resumeScore, relevance |-> relevanceScore, weights |-> weights]]

calculateMultiScore(j, p, vi, cfg, halfUp) ==
    LET weights == defaultWeights(cfg)
    IN  combineScores(calculateVisaScore(j, vi, p), calculateResumeMatchScore(j, p, weights),
                      calculateJobRelevanceScore(j, p), weights, halfUp)

----------------------------------------------------------------------------
(* Input domains *)

MaxActivityCount == 5

MaxPositive == 11

MaxNegative == 1

CommunitySignals == {Null} \cup {[k |-> "object", positive_count |-> a, negative_count |-> b] : a \in 0..MaxPositive, b \in 0..MaxNegative}

\* every visa signal within the bounds
VisaIntels ==
    [registry_match : BOOLEAN, recent_activity : BOOLEAN, recent_activity_count : 0..MaxActivityCount,
     community_signals : CommunitySignals, jd_keywords_found : BOOLEAN, explicit_no_sponsorship : BOOLEAN]

\* the signals with every factor either absent or at its cap
CappedVisaIntels ==
    [registry_match : BOOLEAN, recent_activity : BOOLEAN, recent_activity_count : {4},
     community_signals : {Null, [k |-> "object", positive_count |-> 10, negative_count |-> 0]},
     jd_keywords_found : BOOLEAN, explicit_no_sponsorship : BOOLEAN]

PerfectVisaIntel ==
    [registry_match |-> TRUE, recent_activity |-> TRUE, recent_activity_count |-> 4,
     community_signals |-> [k |-> "object", positive_count |-> 10, negative_count |-> 0],
     jd_keywords_found |-> TRUE, explicit_no_sponsorship |-> FALSE]

PerfectJob ==
    [title |-> Str(<<"P","r","o","d","u","c","t"," ","M","a","n","a","g","e","r">>),
     location |-> Str(<<"L","o","n","d","o","n">>),
     country_code |-> Str(<<"G","B">>),
     skills |-> Arr(<<<<"P","a","y","m","e","n","t","s">>, <<"R","o","a","d","m","a","p">>, <<"J","i","r","a">>, <<"S","Q","L">>>>),
     domains |-> Arr(<<<<"f","i","n","t","e","c","h">>>>),
     is_remote |-> FALSE,
     salary_min |-> Num(60000),
     salary_currency |-> Str(<<"G","B","P">>),
     experience_min |-> Num(3),
     experience_max |-> Num(8)]

\* a remote job abroad with a generic title, fewer skills and no salary
PartialJob ==
    [title |-> Str(<<"T","e","a","m"," ","L","e","a","d">>),
     location |-> Str(<<"B","e","r","l","i","n">>),
     country_code |-> Str(<<"D","E">>),
     skills |-> Arr(<<<<"j","a","v","a","s","c","r","i","p","t">>, <<"k","y","c">>>>),
     domains |-> Arr(<<<<"L","e","n","d","i","n","g">>>>),
     is_remote |-> TRUE,
     salary_min |-> Undefined,
     salary_currency |-> Undefined,
     experience_min |-> Num(7),
     experience_max |-> Undefined]

\* the perfect job under another title and for less experience than the perfect profile has
JuniorJob == [PerfectJob EXCEPT !.title = Str(<<"E","n","g","i","n","e","e","r">>), !.experience_min = Num(3), !.experience_max = Num(4)]

\* a job with every optional field missing
EmptyJob ==
    [title |-> Undefined, location |-> Undefined, country_code |-> Undefined, skills |-> Undefined,
     domains |-> Undefined, is_remote |-> FALSE, salary_min |-> Undefined, salary_currency |-> Undefined,
     experience_min |-> Undefined, experience_max |-> Undefined]

PerfectProfile ==
    [skills_must_have_domain |-> Arr(<<<<"p","a","y","m","e","n","t","s">>, <<"F","i","n","t","e","c","h">>>>),
     skills_must_have_core_pm |-> Arr(<<<<"r","o","a","d","m","a","p">>>>),
     skills_good_to_have |-> Arr(<<<<"j","i","r","a">>>>),
     skills_okay_to_have |-> Arr(<<<<"s","q","l">>>>),
     role_flexibility |-> [k |-> "object", preferred |-> Arr(<<<<"p","r","o","d","u","c","t"," ","m","a","n","a","g","e","r">>>>), acceptable |-> Arr(<<<<"p","r","o","d","u","c","t"," ","o","w","n","e","r">>>>)],
     preferred_locations |-> Arr(<<<<"l","o","n","d","o","n">>>>),
     target_countries |-> Arr(<<<<"g","b">>>>),
     salary_expectation |-> [k |-> "object", min |-> Num(50000), max |-> Num(70000)],
     years_of_experience |-> Num(5),
     industries |-> Arr(<<<<"F","i","n","T","e","c","h">>>>)]

\* a profile half of whose skills the perfect job has, aiming at other places
PartialProfile ==
    [skills_must_have_domain |-> Arr(<<<<"p","a","y","m","e","n","t","s">>, <<"k","y","c">>>>),
     skills_must_have_core_pm |-> Arr(<<<<"r","o","a","d","m","a","p">>, <<"a","g","i","l","e">>>>),
     skills_good_to_have |-> Arr(<<<<"j","i","r","a">>, <<"f","i","g","m","a">>, <<"s","q","l">>>>),
     skills_okay_to_have |-> Arr(<<<<"J","a","v","a">>>>),
     role_flexibility |-> [k |-> "object", preferred |-> Arr(<<<<"d","i","r","e","c","t","o","r">>>>), acceptable |-> Arr(<<<<"m","a","n","a","g","e","r">>>>)],
     preferred_locations |-> Arr(<<<<"P","a","r","i","s">>>>),
     target_countries |-> Arr(<<<<"D","E">>>>),
     salary_expectation |-> [k |-> "object", min |-> Num(65000), max |-> Null],
     years_of_experience |-> Num(9),
     industries |-> Arr(<<<<"t","e","c","h">>>>)]

\* a profile with every optional field missing
EmptyProfile ==
    [skills_must_have_domain |-> Undefined, skills_must_have_core_pm |-> Undefined, skills_good_to_have |-> Undefined,
     skills_okay_to_have |-> Undefined, role_flexibility |-> Undefined, preferred_locations |-> Undefined,
     target_countries |-> Undefined, salary_expectation |-> Undefined, years_of_experience |-> Undefined,
     industries |-> Undefined]

\* calculateMultiScore called with config = {}
EmptyConfig ==
    [visa_score_weight |-> Undefined, resume_score_weight |-> Undefined, relevance_score_weight |-> Undefined,
     domain_skills_weight |-> Undefined, core_pm_skills_weight |-> Undefined, tools_skills_weight |-> Undefined,
     tech_skills_weight |-> Undefined]

\* (country_code, salary_min, salary_currency) of the jobs of the visa runs: above, close to
\* and below the threshold, in and out of the table, with and without a salary
SalaryCases ==
    {<<Str(<<"G","B">>), Num(60000), Str(<<"G","B","P">>)>>,
     <<Str(<<"G","B">>), Num(35000), Str(<<"G","B","P">>)>>,
     <<Str(<<"G","B">>), Num(30000), Str(<<"G","B","P">>)>>,
     <<Str(<<"G","B">>), Num(49000), Str(<<"U","S","D">>)>>,
     <<Str(<<"G","B">>), Num(0), Str(<<"G","B","P">>)>>,
     <<Str(<<"G","B">>), Undefined, Undefined>>,
     <<Str(<<"g","b">>), Num(60000), Str(<<"G","B","P">>)>>,
     <<Str(<<"S","E">>), Num(156000), Str(<<"S","E","K">>)>>,
     <<Undefined, Num(60000), Str(<<"G","B","P">>)>>}

VisaJobs == {[PerfectJob EXCEPT !.country_code = c[1], !.salary_min = c[2], !.salary_currency = c[3]] : c \in SalaryCases}

InputsVisa == [job : VisaJobs, profile : {PerfectProfile}, visaIntel : VisaIntels, config : {EmptyConfig}]

JobSkillOptions == {Undefined, Arr(<<<<"P","a","y","m","e","n","t","s">>, <<"R","o","a","d","m","a","p">>, <<"J","i","r","a">>, <<"S","Q","L">>>>), Arr(<<<<"j","a","v","a","s","c","r","i","p","t">>, <<"k","y","c">>, <<"a","g","i","l","e">>>>), Arr(<<<<"p","a","y">>>>)}

JobDomainOptions == {Undefined, Arr(<<<<"L","e","n","d","i","n","g">>>>)}

ResumeJobs == {[PerfectJob EXCEPT !.skills = sk, !.domains = d] : sk \in JobSkillOptions, d \in JobDomainOptions}

DomainTierOptions == {Undefined, Arr(<<>>), Arr(<<<<"P","a","y","m","e","n","t","s">>>>), Arr(<<<<"p","a","y","m","e","n","t","s">>, <<"k","y","c">>>>), Arr(<<<<"p","a","y","m","e","n","t","s">>, <<"k","y","c">>, <<"l","e","n","d","i","n","g">>>>)}

CoreTierOptions == {Undefined, Arr(<<<<"R","o","a","d","m","a","p">>>>), Arr(<<<<"r","o","a","d","m","a","p">>, <<"a","g","i","l","e">>>>)}

ToolsTierOptions == {Arr(<<<<"j","i","r","a">>>>), Arr(<<<<"j","i","r","a">>, <<"f","i","g","m","a">>, <<"s","q","l">>>>)}

TechTierOptions == {Undefined, Arr(<<<<"S","Q","L">>>>), Arr(<<<<"j","a","v","a">>>>)}

ResumeProfiles ==
    {[PerfectProfile EXCEPT !.skills_must_have_domain = a, !.skills_must_have_core_pm = b, !.skills_good_to_have = c, !.skills_okay_to_have = d] :
        a \in DomainTierOptions, b \in CoreTierOptions, c \in ToolsTierOptions, d \in TechTierOptions}

\* tier weights: absent, 0, the tier's maxPoints/100, and 1
ResumeConfigs ==
    {[EmptyConfig EXCEPT !.domain_skills_weight = a, !.core_pm_skills_weight = b, !.tools_skills_weight = c, !.tech_skills_weight = d] :
        a \in {Undefined, Num(0), Num(50), Num(100)}, b \in {Undefined, Num(30), Num(100)},
        c \in {Num(15), Num(100)}, d \in {Undefined, Num(5), Num(100)}}

\* the profiles whose four skill tiers are each absent or an empty list
EmptyTierProfiles ==
    {[PerfectProfile EXCEPT !.skills_must_have_domain = a, !.skills_must_have_core_pm = b, !.skills_good_to_have = c, !.skills_okay_to_have = d] :
        a \in {Undefined, Arr(<<>>)}, b \in {Undefined, Arr(<<>>)}, c \in {Undefined, Arr(<<>>)}, d \in {Undefined, Arr(<<>>)}}

\* profiles whose domain tier names one skill twice, in two spellings
RepeatedTierProfiles ==
    {[PerfectProfile EXCEPT !.skills_must_have_domain = Arr(<<<<"P","a","y","m","e","n","t","s">>, <<"p","a","y","m","e","n","t","s">>, <<"k","y","c">>>>), !.skills_okay_to_have = d] :
        d \in {Arr(<<<<"s","q","l">>, <<"S","Q","L">>, <<"j","a","v","a">>>>), Arr(<<<<"S","Q","L">>>>)}}

InputsResume == [job : ResumeJobs, profile : ResumeProfiles \cup EmptyTierProfiles \cup RepeatedTierProfiles, visaIntel : {PerfectVisaIntel}, config : ResumeConfigs]

TopWeights == {Undefined, Num(0), Num(50), Num(100)}

AggregateConfigs ==
    {[EmptyConfig EXCEPT !.visa_score_weight = a, !.resume_score_weight = b, !.relevance_score_weight = c, !.domain_skills_weight = d] :
        a \in TopWeights, b \in TopWeights, c \in TopWeights, d \in {Undefined, Num(100)}}

InputsAggregate ==
    [job : {PerfectJob, JuniorJob, PartialJob, EmptyJob}, profile : {PerfectProfile, PartialProfile, EmptyProfile},
     visaIntel : CappedVisaIntels, config : AggregateConfigs]

\* the optional fields of a job, in the groups in which they are dropped
JobOptional == {"skills", "domains", "salary", "experience", "location"}

\* the value left in place of a dropped field: undefined, or the empty value of its type
GoneArr(void) == IF void THEN Arr(<<>>) ELSE Undefined

GoneNum(void) == IF void THEN Null ELSE Undefined

GoneStr(void) == IF void THEN Str(<<>>) ELSE Undefined

JobWithout(base, gone, void) ==
    [base EXCEPT !.skills = IF "skills" \in gone THEN GoneArr(void) ELSE @,
                 !.domains = IF "domains" \in gone THEN GoneArr(void) ELSE @,
                 !.salary_min = IF "salary" \in gone THEN GoneNum(void) ELSE @,
                 !.salary_currency = IF "salary" \in gone THEN Undefined ELSE @,
                 !.experience_min = IF "experience" \in gone THEN GoneNum(void) ELSE @,
                 !.experience_max = IF "experience" \in gone THEN GoneNum(void) ELSE @,
                 !.location = IF "location" \in gone THEN GoneStr(void) ELSE @,
                 !.country_code = IF "location" \in gone THEN GoneStr(void) ELSE @]

ProfileOptional == {"tiers", "locations", "industries", "role", "salary", "years"}

ProfileWithout(base, gone, void) ==
    [base EXCEPT !.skills_must_have_domain = IF "tiers" \in gone THEN GoneArr(void) ELSE @,
                 !.skills_must_have_core_pm = IF "tiers" \in gone THEN GoneArr(void) ELSE @,
                 !.skills_good_to_have = IF "tiers" \in gone THEN GoneArr(void) ELSE @,
                 !.skills_okay_to_have = IF "tiers" \in gone THEN GoneArr(void) ELSE @,
                 !.preferred_locations = IF "locations" \in gone THEN GoneArr(void) ELSE @,
                 !.target_countries = IF "locations" \in gone THEN GoneArr(void) ELSE @,
                 !.industries = IF "industries" \in gone THEN GoneArr(void) ELSE @,
                 !.role_flexibility = IF "role" \in gone THEN (IF void THEN [k |-> "object", preferred |-> Undefined, acceptable |-> Arr(<<>>)] ELSE Undefined) ELSE @,
                 !.salary_expectation = IF "salary" \in gone THEN (IF void THEN [k |-> "object", min |-> Null, max |-> Null] ELSE Undefined) ELSE @,
                 !.years_of_experience = IF "years" \in gone THEN GoneNum(void) ELSE @]

\* the perfect job advertised as remote
RemoteJob == [PerfectJob EXCEPT !.is_remote = TRUE]

\* the perfect job and profile with every combination of optional fields dropped
InputsMissing ==
    {[job |-> JobWithout(base, gj, void), profile |-> ProfileWithout(PerfectProfile, gp, void),
      visaIntel |-> [PerfectVisaIntel EXCEPT !.community_signals = IF void THEN Null ELSE @], config |-> EmptyConfig] :
        base \in {PerfectJob, RemoteJob}, gj \in SUBSET JobOptional, gp \in SUBSET ProfileOptional, void \in BOOLEAN}

\* job salaries around an expected minimum of 50000 and its 90% mark, directly and after
\* conversion (63292 USD and 675676 SEK are just above 50000, 608109 SEK just above 45000)
SalaryAmounts == {Undefined, Num(30000), Num(45000), Num(49999), Num(50000), Num(60000), Num(80000), Num(63292), Num(675676), Num(608109)}

SalaryCurrencies == {Undefined, Str(<<"G","B","P">>), Str(<<"U","S","D">>), Str(<<"S","E","K">>), Str(<<"J","P","Y">>)}

\* salary expectations: absent, without a minimum, with both bounds, and with no upper bound
SalaryExpectations ==
    {Undefined,
     [k |-> "object", min |-> Null, max |-> Null],
     [k |-> "object", min |-> Num(50000), max |-> Num(70000)],
     [k |-> "object", min |-> Num(50000), max |-> Null]}

\* (experience_min, experience_max) of a job
ExperienceBounds ==
    {<<Undefined, Undefined>>, <<Null, Null>>, <<Num(3), Num(8)>>, <<Num(7), Undefined>>,
     <<Num(0), Num(0)>>, <<Undefined, Num(0)>>, <<Num(0), Num(2)>>}

YearsOfExperience == {Undefined, Num(0), Num(1), Num(2), Num(4), Num(5), Num(9), Num(10), Num(11)}

RelevanceJobs ==
    {[PerfectJob EXCEPT !.salary_min = a, !.salary_currency = c, !.experience_min = e[1], !.experience_max = e[2]] :
        a \in SalaryAmounts, c \in SalaryCurrencies, e \in ExperienceBounds}

RelevanceProfiles ==
    {[PerfectProfile EXCEPT !.salary_expectation = x, !.years_of_experience = y] : x \in SalaryExpectations, y \in YearsOfExperience}

InputsRelevance == [job : RelevanceJobs, profile : RelevanceProfiles, visaIntel : {PerfectVisaIntel}, config : {EmptyConfig}]

\* jobs and profiles that differ in what calculateLocationMatch reads
LocationJobs ==
    {[PerfectJob EXCEPT !.location = l, !.country_code = c, !.is_remote = r] :
        l \in {Undefined, Str(<<>>), Str(<<"L","o","n","d","o","n",","," ","U","K">>), Str(<<"B","e","r","l","i","n">>)},
        c \in {Undefined, Str(<<"G","B">>), Str(<<"g","b">>), Str(<<"D","E">>)},
        r \in BOOLEAN}

LocationProfiles ==
    {[PerfectProfile EXCEPT !.preferred_locations = l, !.target_countries = c] :
        l \in {Undefined, Arr(<<>>), Arr(<<<<"l","o","n","d","o","n">>>>), Arr(<<<<>>>>), Arr(<<<<"P","a","r","i","s">>, <<"B","e","r","l","i","n">>>>)},
        c \in {Undefined, Arr(<<<<"G","B">>>>), Arr(<<<<>>>>), Arr(<<<<"u","s">>, <<"d","e">>>>)}}

\* jobs and profiles that differ in what calculateRoleMatch reads
RoleJobs ==
    {[PerfectJob EXCEPT !.title = t] :
        t \in {Undefined, Str(<<>>), Str(<<"S","e","n","i","o","r"," ","P","r","o","d","u","c","t"," ","M","a","n","a","g","e","r">>), Str(<<"P","M">>), Str(<<"E","n","g","i","n","e","e","r">>), Str(<<"T","e","a","m"," ","L","e","a","d">>)}}

RoleProfiles ==
    {[PerfectProfile EXCEPT !.role_flexibility = f] : f \in
        {Undefined,
         [k |-> "object", preferred |-> Arr(<<>>), acceptable |-> Arr(<<>>)],
         [k |-> "object", preferred |-> Arr(<<<<"P","r","o","d","u","c","t"," ","M","a","n","a","g","e","r">>>>), acceptable |-> Arr(<<<<"P","r","o","d","u","c","t"," ","O","w","n","e","r">>>>)],
         [k |-> "object", preferred |-> Arr(<<<<"s","e","n","i","o","r"," ","p","m">>>>), acceptable |-> Arr(<<<<"e","n","g","i","n","e","e","r">>>>)],
         [k |-> "object", preferred |-> Undefined, acceptable |-> Arr(<<<<"E","n","g","i","n","e","e","r","i","n","g"," ","M","a","n","a","g","e","r",","," ","P","a","y","m","e","n","t","s">>>>)],
         [k |-> "object", preferred |-> Arr(<<<<"d","a","t","a"," ","s","c","i","e","n","t","i","s","t">>>>), acceptable |-> Undefined]}}

\* jobs and profiles that differ in what calculateIndustryMatch reads
IndustryJobs ==
    {[PerfectJob EXCEPT !.domains = d] :
        d \in {Undefined, Arr(<<>>), Arr(<<<<"F","i","n","t","e","c","h">>>>), Arr(<<<<"f","i","n","t","e","c","h"," ","s","a","a","s">>>>), Arr(<<<<"h","e","a","l","t","h">>, <<"B","a","n","k","i","n","g">>>>)}}

IndustryProfiles ==
    {[PerfectProfile EXCEPT !.industries = i] :
        i \in {Undefined, Arr(<<>>), Arr(<<<<"f","i","n","t","e","c","h">>>>), Arr(<<<<"F","I","N","T","E","C","H">>, <<"r","e","t","a","i","l">>>>), Arr(<<<<"b","a","n","k","i","n","g"," ","t","e","c","h">>>>), Arr(<<<<"t","e","c","h">>>>)}}

InputsFactors ==
    [job : LocationJobs, profile : LocationProfiles, visaIntel : {PerfectVisaIntel}, config : {EmptyConfig}]
    \cup [job : RoleJobs, profile : RoleProfiles, visaIntel : {PerfectVisaIntel}, config : {EmptyConfig}]
    \cup [job : IndustryJobs, profile : IndustryProfiles, visaIntel : {PerfectVisaIntel}, config : {EmptyConfig}]

\* jobs that differ in what checkSalaryThreshold reads: every country of the table, a code in
\* lower case, a country outside the table and none; salaries at, just below and well away from
\* each threshold and its nine tenths
ThresholdJobs ==
    {[PerfectJob EXCEPT !.country_code = c, !.salary_min = s, !.salary_currency = u] :
        c \in {Undefined, Str(<<"G","B">>), Str(<<"g","b">>), Str(<<"N","L">>), Str(<<"D","E">>), Str(<<"S","E">>), Str(<<"A","U">>), Str(<<"C","A">>), Str(<<"U","S">>)},
        s \in {Undefined, Null, Num(0), Num(10389), Num(11544), Num(34829), Num(34830), Num(38699), Num(38700), Num(40500), Num(40770),
              Num(45000), Num(45300), Num(48600), Num(54000), Num(62999), Num(63000), Num(70000), Num(140400), Num(155999), Num(156000)},
        u \in {Undefined, Str(<<"G","B","P">>), Str(<<"S","E","K">>), Str(<<"U","S","D">>), Str(<<"E","U","R">>)}}

InputsThreshold == [job : ThresholdJobs, profile : {PerfectProfile}, visaIntel : {PerfectVisaIntel}, config : {EmptyConfig}]

----------------------------------------------------------------------------
(* The state machine: a caller holds (job, profile, visaIntel, config) and calls *)
(* calculateMultiScore once; the call returns the result and leaves its inputs.  *)

NoResult == [pending |-> TRUE]

NoParts == [visa |-> NoResult, resume |-> NoResult, relevance |-> NoResult]

\* no second call is under way
RepeatIdle == between = NoResult /\ parts = NoParts /\ again = NoResult

\* the legacy scorer is not called
LegacyIdle == normalized = NoResult /\ companyRegistry = <<>> /\ legacy = NoResult

\* no ingest request is being served
IngestIdle == job_raw = <<>> /\ bulk = NoResult /\ manual = <<>>

RegistryIdle == visa_sponsor_registry = <<>> /\ importRun = NoResult

ProfileIdle == user_profile = <<>> /\ profile_versions = <<>> /\ saves = <<>>

CounterIdle == counter = NoResult /\ increments = <<>>

InitWith(inputs) ==
    /\ \E i \in inputs : job = i.job /\ profile = i.profile /\ visaIntel = i.visaIntel /\ config = i.config
    /\ tieUp \in BOOLEAN
    /\ result = NoResult
    /\ pc = "ready"
    /\ RepeatIdle /\ LegacyIdle /\ IngestIdle /\ RegistryIdle /\ ProfileIdle /\ CounterIdle

Call ==
    /\ pc = "ready"
    /\ result' = calculateMultiScore(job, profile, visaIntel, config, tieUp)
    /\ pc' = "done"
    /\ UNCHANGED <<inputVars, tieUp, repeatVars, legacyVars, ingestVars, serviceVars>>

Next == Call

Init == InitWith(InputsVisa \cup InputsResume \cup InputsAggregate)

Spec == Init /\ [][Next]_vars

InitVisa == InitWith(InputsVisa)

SpecVisa == InitVisa /\ [][Next]_vars

InitResume == InitWith(InputsResume)

SpecResume == InitResume /\ [][Next]_vars

InitAggregate == InitWith(InputsAggregate)

SpecAggregate == InitAggregate /\ [][Next]_vars

InitMissing == InitWith(InputsMissing)

InitRelevance == InitWith(InputsRelevance)

InitFactors == InitWith(InputsFactors)

SpecFactors == InitFactors /\ [][Next]_vars

InitThreshold == InitWith(InputsThreshold)

SpecThreshold == InitThreshold /\ [][Next]_vars

SpecRelevance == InitRelevance /\ [][Next]_vars

SpecMissing == InitMissing /\ [][Next]_vars

----------------------------------------------------------------------------
(* A repeated call: after the first call the caller calls calculateMultiScore  *)
(* again on the inputs it still holds.  The three sub-scorers of the second   *)
(* call are evaluated one at a time in any order, and a call on other inputs  *)
(* may be made at any point before the second call returns.                   *)

\* top-level weights absent or 0.5, which make the weighted sum fall on halves
HalfConfigs ==
    {[EmptyConfig EXCEPT !.visa_score_weight = a, !.resume_score_weight = b, !.relevance_score_weight = c] :
        a \in {Undefined, Num(50)}, b \in {Undefined, Num(50)}, c \in {Undefined, Num(50)}}

InputsTwice ==
    [job : {PerfectJob, JuniorJob, PartialJob, EmptyJob}, profile : {PerfectProfile, PartialProfile, EmptyProfile},
     visaIntel : {v \in CappedVisaIntels : v.registry_match /\ v.jd_keywords_found}, config : HalfConfigs]

\* the inputs of the calls made in between
BetweenInputs ==
    {[job |-> PartialJob, profile |-> PartialProfile, visaIntel |-> PerfectVisaIntel, config |-> EmptyConfig],
     [job |-> EmptyJob, profile |-> PerfectProfile, visaIntel |-> [PerfectVisaIntel EXCEPT !.explicit_no_sponsorship = TRUE],
      config |-> [EmptyConfig EXCEPT !.visa_score_weight = Num(100), !.tech_skills_weight = Num(100)]]}

\* Variant of CallBetween: the call leaves its own config in the object the caller holds
CallBetween_leaking ==
    /\ pc = "done" /\ between = NoResult
    /\ \E i \in BetweenInputs, h \in BOOLEAN :
          /\ between' = calculateMultiScore(i.job, i.profile, i.visaIntel, i.config, h)
          /\ config' = i.config
    /\ UNCHANGED <<job, profile, visaIntel, result, pc, tieUp, parts, again, legacyVars, ingestVars, serviceVars>>

\* a call on other inputs: it returns its result and touches nothing else
CallBetween ==
    /\ pc = "done" /\ between = NoResult
    /\ \E i \in BetweenInputs, h \in BOOLEAN : between' = calculateMultiScore(i.job, i.profile, i.visaIntel, i.config, h)
    /\ UNCHANGED <<inputVars, result, pc, tieUp, parts, again, legacyVars, ingestVars, serviceVars>>

ScoreVisa ==
    /\ pc = "done" /\ parts.visa = NoResult
    /\ parts' = [parts EXCEPT !.visa = calculateVisaScore(job, visaIntel, profile)]
    /\ UNCHANGED <<inputVars, result, pc, tieUp, between, again, legacyVars, ingestVars, serviceVars>>

ScoreResume ==
    /\ pc = "done" /\ parts.resume = NoResult
    /\ parts' = [parts EXCEPT !.resume = calculateResumeMatchScore(job, profile, defaultWeights(config))]
    /\ UNCHANGED <<inputVars, result, pc, tieUp, between, again, legacyVars, ingestVars, serviceVars>>

ScoreRelevance ==
    /\ pc = "done" /\ parts.relevance = NoResult
    /\ parts' = [parts EXCEPT !.relevance = calculateJobRelevanceScore(job, profile)]
    /\ UNCHANGED <<inputVars, result, pc, tieUp, between, again, legacyVars, ingestVars, serviceVars>>

\* the second call returns
Combine ==
    /\ pc = "done"
    /\ parts.visa # NoResult /\ parts.resume # NoResult /\ parts.relevance # NoResult
    /\ again' = combineScores(parts.visa, parts.resume, parts.relevance, defaultWeights(config), tieUp)
    /\ pc' = "twice"
    /\ UNCHANGED <<inputVars, result, tieUp, between, parts, legacyVars, ingestVars, serviceVars>>

NextTwice == Call \/ CallBetween \/ ScoreVisa \/ ScoreResume \/ ScoreRelevance \/ Combine

InitTwice == InitWith(InputsTwice)

SpecTwice == InitTwice /\ [][NextTwice]_vars

----------------------------------------------------------------------------
(* The ingest handlers and the job_raw table.  job_raw has no uniqueness      *)
(* constraint on source_url, so the table is held as the number of rows per   *)
(* URL.  Every await of a handler is a step; the fetch, which touches no      *)
(* shared state, is taken together with the insert that follows it.           *)

Urls == {"job-a", "job-b"}

batchSize == 5

\* the scoring caller is not part of a run of the handlers
ScoringIdle ==
    /\ job = EmptyJob /\ profile = EmptyProfile /\ visaIntel = PerfectVisaIntel /\ config = EmptyConfig
    /\ tieUp = FALSE /\ result = NoResult /\ pc = "idle"
    /\ RepeatIdle

\* the url lists of the bulk request: a repeated url inside one batch, an entry that is
\* not a URL, and a list that needs a second batch
BulkUrlLists ==
    {<<"job-a">>, <<"job-a", "job-a">>, <<"job-a", "job-b", "job-a">>, <<"job-b", "not a url">>,
     <<"job-a", "job-b", "job-b", "job-b", "job-b", "job-a">>}

\* the urls of the manual requests
ManualUrlLists == {<<>>, <<"job-a">>, <<"job-a", "job-a">>}

\* no bulk_import_jobs row yet, and no response yet
NoRow == [status |-> "none"]

NoResponse == [status |-> 0]

InitIngest ==
    /\ job_raw \in {[u \in Urls |-> 0], [u \in Urls |-> IF u = "job-a" THEN 1 ELSE 0]}
    /\ \E urls \in BulkUrlLists :
            bulk = [urls |-> urls, status |-> [k \in 1..Len(urls) |-> "waiting"], i |-> 0, pc |-> "received",
                    results |-> [successful |-> <<>>, failed |-> <<>>, errors |-> <<>>],
                    row |-> NoRow, response |-> NoResponse]
    /\ \E urls \in ManualUrlLists : manual = [m \in 1..Len(urls) |-> [url |-> urls[m], pc |-> "store"]]
    /\ ScoringIdle /\ LegacyIdle /\ RegistryIdle /\ ProfileIdle /\ CounterIdle

\* insert into bulk_import_jobs (total_urls, status 'processing'; the counters default to 0);
\* an insert error is thrown and answered with 500
BulkCreateJob ==
    /\ bulk.pc = "received"
    /\ \/ bulk' = [bulk EXCEPT !.pc = "running",
                                !.row = [status |-> "processing", total_urls |-> Len(bulk.urls), processed_urls |-> 0,
                                         successful_urls |-> 0, failed_urls |-> 0, error_log |-> <<>>]]
       \/ bulk' = [bulk EXCEPT !.pc = "failed", !.response = [status |-> 500]]
    /\ UNCHANGED <<job_raw, manual, inputVars, result, pc, tieUp, repeatVars, legacyVars, serviceVars>>

\* for (let i = 0; i < urls.length; i += batchSize): the tasks of urls.slice(i, i + batchSize)
\* are started together (Promise.allSettled)
BulkStartBatch ==
    /\ bulk.pc = "running"
    /\ bulk.i < Len(bulk.urls)
    /\ bulk' = [bulk EXCEPT !.pc = "batch",
                             !.status = [k \in 1..Len(bulk.urls) |-> IF k > bulk.i /\ k <= bulk.i + batchSize THEN "check" ELSE bulk.status[k]]]
    /\ UNCHANGED <<job_raw, manual, inputVars, result, pc, tieUp, repeatVars, legacyVars, serviceVars>>

\* results.failed.push(url); results.errors.push({url, error})
PushFailed(results, url) == [results EXCEPT !.failed = Append(@, url), !.errors = Append(@, [url |-> url])]

\* new URL(url) throws on an entry that is not a URL; then
\* select ... .eq('source_url', url).single(): data is the row when exactly one row
\* matches, and null otherwise; an existing row ends the task as a duplicate
BulkCheck(k) ==
    /\ bulk.status[k] = "check"
    /\ bulk' = IF bulk.urls[k] \notin Urls
               THEN [bulk EXCEPT !.status[k] = "error", !.results = PushFailed(@, bulk.urls[k])]
               ELSE IF job_raw[bulk.urls[k]] = 1
               THEN [bulk EXCEPT !.status[k] = "duplicate", !.results = PushFailed(@, bulk.urls[k])]
               ELSE [bulk EXCEPT !.status[k] = "store"]
    /\ UNCHANGED <<job_raw, manual, inputVars, result, pc, tieUp, repeatVars, legacyVars, serviceVars>>

\* fetch(url), then insert into job_raw; a failed fetch ends the task as failed
BulkStore(k) ==
    /\ bulk.status[k] = "store"
    /\ \/ /\ bulk' = [bulk EXCEPT !.status[k] = "error", !.results = PushFailed(@, bulk.urls[k])]
          /\ UNCHANGED job_raw
       \/ /\ job_raw' = [job_raw EXCEPT ![bulk.urls[k]] = @ + 1]
          /\ bulk' = [bulk EXCEPT !.status[k] = "successful", !.results.successful = Append(@, bulk.urls[k])]
    /\ UNCHANGED <<manual, inputVars, result, pc, tieUp, repeatVars, legacyVars, serviceVars>>

\* Variant of BulkProgress: the progress written as i + batchSize, without the cap at urls.length
BulkProgress_unclamped ==
    /\ bulk.pc = "batch"
    /\ \A k \in 1..Len(bulk.urls) : bulk.status[k] \notin {"check", "store"}
    /\ bulk' = [bulk EXCEPT !.pc = "running", !.i = @ + batchSize,
                             !.row.processed_urls = bulk.i + batchSize,
                             !.row.successful_urls = Len(bulk.results.successful),
                             !.row.failed_urls = Len(bulk.results.failed)]
    /\ UNCHANGED <<job_raw, manual, inputVars, result, pc, tieUp, repeatVars, legacyVars, serviceVars>>

\* once every task of the batch has settled: update bulk_import_jobs with the progress, and
\* the loop goes on to the next batch
BulkProgress ==
    /\ bulk.pc = "batch"
    /\ \A k \in 1..Len(bulk.urls) : bulk.status[k] \notin {"check", "store"}
    /\ bulk' = [bulk EXCEPT !.pc = "running", !.i = @ + batchSize,
                             !.row.processed_urls = Min(bulk.i + batchSize, Len(bulk.urls)),
                             !.row.successful_urls = Len(bulk.results.successful),
                             !.row.failed_urls = Len(bulk.results.failed)]
    /\ UNCHANGED <<job_raw, manual, inputVars, result, pc, tieUp, repeatVars, legacyVars, serviceVars>>

\* after the loop: the import job is finalized and the response sent
BulkFinish ==
    /\ bulk.pc = "running"
    /\ bulk.i >= Len(bulk.urls)
    /\ bulk' = [bulk EXCEPT !.pc = "completed",
                             !.row.status = "completed",
                             !.row.successful_urls = Len(bulk.results.successful),
                             !.row.failed_urls = Len(bulk.results.failed),
                             !.row.error_log = bulk.results.errors,
                             !.response = [status |-> 200, total |-> Len(bulk.urls),
                                           successful |-> Len(bulk.results.successful),
                                           failed |-> Len(bulk.results.failed),
                                           errors |-> bulk.results.errors]]
    /\ UNCHANGED <<job_raw, manual, inputVars, result, pc, tieUp, repeatVars, legacyVars, serviceVars>>

\* the manual handler: fetch(url), then insert into job_raw with no look-up before it
ManualStore(m) ==
    /\ manual[m].pc = "store"
    /\ \/ /\ manual' = [manual EXCEPT ![m].pc = "failed"]
          /\ UNCHANGED job_raw
       \/ /\ job_raw' = [job_raw EXCEPT ![manual[m].url] = @ + 1]
          /\ manual' = [manual EXCEPT ![m].pc = "stored"]
    /\ UNCHANGED <<bulk, inputVars, result, pc, tieUp, repeatVars, legacyVars, serviceVars>>

NextIngest ==
    \/ BulkCreateJob
    \/ BulkStartBatch
    \/ \E k \in 1..Len(bulk.urls) : BulkCheck(k)
    \/ \E k \in 1..Len(bulk.urls) : BulkStore(k)
    \/ BulkProgress
    \/ BulkFinish
    \/ \E m \in 1..Len(manual) : ManualStore(m)

SpecIngest == InitIngest /\ [][NextIngest]_vars

----------------------------------------------------------------------------
(* The legacy keyword scorer computeVisaFromNormalized *)

visaKeywords ==
    [high |-> <<<<"v","i","s","a"," ","s","p","o","n","s","o","r","s","h","i","p">>, <<"h","1","b"," ","s","p","o","n","s","o","r","s","h","i","p">>, <<"w","i","l","l"," ","s","p","o","n","s","o","r">>, <<"s","p","o","n","s","o","r"," ","v","i","s","a">>, <<"h","-","1","b"," ","a","v","a","i","l","a","b","l","e">>, <<"v","i","s","a"," ","t","r","a","n","s","f","e","r">>>>,
     medium |-> <<<<"h","1","b">>, <<"h","-","1","b">>, <<"w","o","r","k"," ","a","u","t","h","o","r","i","z","a","t","i","o","n">>, <<"s","p","o","n","s","o","r","s","h","i","p"," ","a","v","a","i","l","a","b","l","e">>, <<"e","l","i","g","i","b","l","e"," ","f","o","r"," ","s","p","o","n","s","o","r","s","h","i","p">>>>,
     negative |-> <<<<"n","o"," ","v","i","s","a"," ","s","p","o","n","s","o","r","s","h","i","p">>, <<"n","o","t"," ","s","p","o","n","s","o","r","i","n","g">>, <<"m","u","s","t"," ","b","e"," ","a","u","t","h","o","r","i","z","e","d">>, <<"u","s"," ","c","i","t","i","z","e","n","s","h","i","p"," ","r","e","q","u","i","r","e","d">>, <<"s","e","c","u","r","i","t","y"," ","c","l","e","a","r","a","n","c","e"," ","r","e","q","u","i","r","e","d">>>>]

\* for (const keyword of list) { if (text.includes(keyword)) { ...; break } } : the
\* position of the first keyword found in the text, 0 when there is none
FirstKeyword(text, list) ==
    IF \E n \in 1..Len(list) : includes(text, list[n])
    THEN CHOOSE n \in 1..Len(list) : includes(text, list[n]) /\ \A m \in 1..(n - 1) : ~includes(text, list[m])
    ELSE 0

\* companyRegistry.find(c => company.includes(c.name.toLowerCase()) || c.name.toLowerCase().includes(company)) :
\* the position of the first entry that matches, 0 when there is none
FindCompany(company, registry) ==
    LET hit(n) == includes(company, toLowerCase(registry[n].name)) \/ includes(toLowerCase(registry[n].name), company)
    IN  IF \E n \in 1..Len(registry) : hit(n)
        THEN CHOOSE n \in 1..Len(registry) : hit(n) /\ \A m \in 1..(n - 1) : ~hit(m)
        ELSE 0

\* the result; its explanation is held as the positions of the keywords and of the
\* registry entry that the joined sentences name
computeVisaFromNormalized(n, registry) ==
    LET text == toLowerCase(OrEmptyStr(n.normalized_text))
        company == toLowerCase(OrEmptyStr(n.company))
        high == FirstKeyword(text, visaKeywords.high)
        negative == IF high = 0 THEN FirstKeyword(text, visaKeywords.negative) ELSE 0
        medium == IF high = 0 /\ negative = 0 THEN FirstKeyword(text, visaKeywords.medium) ELSE 0
        fromText == IF high # 0 THEN 90 ELSE IF negative # 0 THEN 10 ELSE IF medium # 0 THEN 60 ELSE 0
        match == FindCompany(company, registry)
        sponsor == match # 0 /\ registry[match].sponsors_visa
        boosted == IF sponsor THEN (IF fromText = 0 THEN 70 ELSE Min(95, fromText + 10)) ELSE fromText
    IN  [visa_score_int |-> IF boosted = 0 THEN 30 ELSE boosted,
         visa_confidence |-> IF boosted = 0 THEN "low"
                             ELSE IF sponsor /\ fromText = 0 THEN "medium"
                             ELSE IF high # 0 \/ negative # 0 THEN "high" ELSE "medium",
         visa_categories |-> (IF high # 0 THEN <<"explicit_sponsorship">> ELSE <<>>)
                             \o (IF negative # 0 THEN <<"explicit_no_sponsorship">> ELSE <<>>)
                             \o (IF medium # 0 THEN <<"visa_mentioned">> ELSE <<>>)
                             \o (IF sponsor THEN <<"known_sponsor">> ELSE <<>>)
                             \o (IF boosted = 0 THEN <<"no_information">> ELSE <<>>),
         explanation |-> <<high, negative, medium, IF sponsor THEN match ELSE 0>>]

\* the texts of the job postings scored: an offer, three refusals, a bare visa keyword,
\* no visa information, and no text
LegacyTexts ==
    {Undefined, Str(<<"W","e"," ","o","f","f","e","r"," ","v","i","s","a"," ","s","p","o","n","s","o","r","s","h","i","p">>),
     Str(<<"N","o"," ","v","i","s","a"," ","s","p","o","n","s","o","r","s","h","i","p">>),
     Str(<<"W","e"," ","a","r","e"," ","n","o","t"," ","s","p","o","n","s","o","r","i","n","g"," ","v","i","s","a","s">>),
     Str(<<"H","1","B"," ","w","e","l","c","o","m","e">>),
     Str(<<"G","r","e","a","t"," ","t","e","a","m">>),
     Str(<<"M","u","s","t"," ","b","e"," ","a","u","t","h","o","r","i","z","e","d",","," ","n","o"," ","H","-","1","B">>),
     Str(<<"W","i","l","l"," ","s","p","o","n","s","o","r">>)}

LegacyCompanies == {Undefined, Str(<<"W","i","s","e">>), Str(<<"A","c","m","e"," ","L","t","d">>)}

LegacyRegistries ==
    {<<>>,
     <<[name |-> <<"W","i","s","e">>, sponsors_visa |-> TRUE]>>,
     <<[name |-> <<"W","i","s","e">>, sponsors_visa |-> FALSE]>>,
     <<[name |-> <<"A","c","m","e">>, sponsors_visa |-> FALSE], [name |-> <<"W","i","s","e">>, sponsors_visa |-> TRUE]>>,
     <<[name |-> <<"A","c","m","e">>, sponsors_visa |-> TRUE], [name |-> <<"W","i","s","e">>, sponsors_visa |-> TRUE]>>}

InitLegacy ==
    /\ \E t \in LegacyTexts, c \in LegacyCompanies :
          normalized = [normalized_text |-> t, company |-> c, title |-> Str(<<"P","r","o","d","u","c","t"," ","M","a","n","a","g","e","r">>)]
    /\ companyRegistry \in LegacyRegistries
    /\ legacy = NoResult
    /\ ScoringIdle /\ IngestIdle /\ RegistryIdle /\ ProfileIdle /\ CounterIdle

CallLegacy ==
    /\ legacy = NoResult
    /\ legacy' = computeVisaFromNormalized(normalized, companyRegistry)
    /\ UNCHANGED <<normalized, companyRegistry, inputVars, result, pc, tieUp, repeatVars, ingestVars, serviceVars>>

NextLegacy == CallLegacy

SpecLegacy == InitLegacy /\ [][NextLegacy]_vars

----------------------------------------------------------------------------
(* The registry import script (importRegistry).  visa_sponsor_registry has a     *)
(* unique constraint on (company_name, country_code); a row is held per key,    *)
(* with last_seen 0 standing for NULL.  The script is run again and again, one  *)
(* run at a time; every await of a run is a step.  A run keeps the table as it  *)
(* was when the run started, for the properties to compare with.                *)

BATCH_SIZE == 500

MaxImports == 2

CompanyNames == {<<"A","c","m","e">>, <<"A","C","M","E">>, <<"B","e","t","a">>}

RegistryCountries == {"GB", "NL"}

RegistryKeys == CompanyNames \X RegistryCountries

AbsentRow == [present |-> FALSE, is_active |-> FALSE, last_seen |-> 0]

\* the company lists a source may deliver
FetchedLists ==
    {<<>>, <<<<"A","c","m","e">>>>, <<<<"A","C","M","E">>>>, <<<<"B","e","t","a">>>>, <<<<"A","c","m","e">>, <<"B","e","t","a">>>>, <<<<"A","c","m","e">>, <<"A","C","M","E">>>>, <<<<"B","e","t","a">>, <<"A","c","m","e">>, <<"B","e","t","a">>>>}

\* the table before the first run: empty, or rows entered before last_seen_fetch_id existed
InitialRegistries ==
    {[key \in RegistryKeys |-> AbsentRow],
     [key \in RegistryKeys |-> IF key[1] = <<"B","e","t","a">> THEN [present |-> TRUE, is_active |-> TRUE, last_seen |-> 0] ELSE AbsentRow]}

InitRegistry ==
    /\ visa_sponsor_registry \in InitialRegistries
    /\ importRun = [pc |-> "idle", runs |-> 0]
    /\ ScoringIdle /\ LegacyIdle /\ IngestIdle /\ ProfileIdle /\ CounterIdle

\* deduplicateRecords: the company names of the unique records, in the order of the list; a
\* company is kept when no earlier company of the list has its lower-cased name
deduplicateRecords(companies) ==
    LET positions == [i \in 1..Len(companies) |-> i]
        Kept(i) == \A j \in 1..(i - 1) : toLowerCase(companies[j]) # toLowerCase(companies[i])
        kept == SelectSeq(positions, Kept)
    IN  [n \in 1..Len(kept) |-> companies[kept[n]]]

\* the catch block: the import record is marked 'failed' and the run returns status 'failed'
Failed(run) == [pc |-> "failed", runs |-> run.runs, countryCode |-> run.countryCode, fetchId |-> run.fetchId, before |-> run.before, companies |-> run.companies]

\* a run starts: the fetch id is made and the import record inserted; an insert error is thrown
ImportStart ==
    /\ importRun.pc \in {"idle", "success", "failed"}
    /\ importRun.runs < MaxImports
    /\ \E c \in RegistryCountries :
        LET run == [pc |-> "fetch", runs |-> importRun.runs + 1, countryCode |-> c, fetchId |-> importRun.runs + 1,
                    before |-> visa_sponsor_registry, companies |-> <<>>]
        IN  importRun' = run \/ importRun' = Failed(run)
    /\ UNCHANGED <<visa_sponsor_registry, user_profile, profile_versions, saves, counter, increments, inputVars, result, pc, tieUp, repeatVars, legacyVars, ingestVars>>

\* importUKRegistry / importNLRegistry: the download may throw; an empty list is thrown as
\* 'No companies found'; otherwise the records are deduplicated and chunked
ImportFetch ==
    /\ importRun.pc = "fetch"
    /\ \/ importRun' = Failed(importRun)
       \/ \E list \in FetchedLists :
            importRun' = IF Len(list) = 0
                         THEN Failed([importRun EXCEPT !.companies = list])
                         ELSE [pc |-> "upsert", runs |-> importRun.runs, countryCode |-> importRun.countryCode, fetchId |-> importRun.fetchId,
                               before |-> importRun.before, companies |-> list,
                               uniqueRecords |-> deduplicateRecords(list), i |-> 0]
    /\ UNCHANGED <<visa_sponsor_registry, user_profile, profile_versions, saves, counter, increments, inputVars, result, pc, tieUp, repeatVars, legacyVars, ingestVars>>

\* upsertBatch on conflict (company_name, country_code): every record of the batch becomes an
\* active row last seen in this fetch; an upsert error is thrown
ImportUpsert ==
    /\ importRun.pc = "upsert"
    /\ importRun.i * BATCH_SIZE < Len(importRun.uniqueRecords)
    /\ \/ /\ importRun' = Failed(importRun)
          /\ UNCHANGED visa_sponsor_registry
       \/ LET batch == SubSeq(importRun.uniqueRecords, importRun.i * BATCH_SIZE + 1, Min((importRun.i + 1) * BATCH_SIZE, Len(importRun.uniqueRecords)))
          IN  /\ visa_sponsor_registry' =
                    [key \in RegistryKeys |->
                        IF key[2] = importRun.countryCode /\ InSeq(batch, key[1])
                        THEN [present |-> TRUE, is_active |-> TRUE, last_seen |-> importRun.fetchId]
                        ELSE visa_sponsor_registry[key]]
              /\ importRun' = [importRun EXCEPT !.i = @ + 1]
    /\ UNCHANGED <<user_profile, profile_versions, saves, counter, increments, inputVars, result, pc, tieUp, repeatVars, legacyVars, ingestVars>>

\* deactivateMissingCompanies: the active rows of the country last seen in another fetch are
\* set inactive; an error of the update is logged and the run goes on
ImportDeactivate ==
    /\ importRun.pc = "upsert"
    /\ importRun.i * BATCH_SIZE >= Len(importRun.uniqueRecords)
    /\ \/ UNCHANGED visa_sponsor_registry
       \/ visa_sponsor_registry' =
            [key \in RegistryKeys |->
                LET row == visa_sponsor_registry[key]
                IN  IF row.present /\ key[2] = importRun.countryCode /\ row.is_active /\ row.last_seen # 0 /\ row.last_seen # importRun.fetchId
                    THEN [row EXCEPT !.is_active = FALSE]
                    ELSE row]
    /\ importRun' = [importRun EXCEPT !.pc = "finish"]
    /\ UNCHANGED <<user_profile, profile_versions, saves, counter, increments, inputVars, result, pc, tieUp, repeatVars, legacyVars, ingestVars>>

\* the active rows are counted, the import record is marked 'success' and the run returns
ImportFinish ==
    /\ importRun.pc = "finish"
    /\ importRun' = [importRun EXCEPT !.pc = "success"]
    /\ UNCHANGED <<visa_sponsor_registry, user_profile, profile_versions, saves, counter, increments, inputVars, result, pc, tieUp, repeatVars, legacyVars, ingestVars>>

NextRegistry == ImportStart \/ ImportFetch \/ ImportUpsert \/ ImportDeactivate \/ ImportFinish

SpecRegistry == InitRegistry /\ [][NextRegistry]_vars

----------------------------------------------------------------------------
(* The profile API (createOrUpdateProfile, updateProfile, createVersionSnapshot). *)
(* user_profile is held as the list of the ids of its rows and profile_versions  *)
(* as the list of its rows (user_profile_id, version_number); profile_versions   *)
(* has no uniqueness constraint.  The requests run concurrently and every await *)
(* of a handler is a step.  Writes whose error the code does not test are taken *)
(* to succeed.                                                                   *)

MaxSaves == 3

InitProfile ==
    /\ \/ user_profile = <<>> /\ profile_versions = <<>>
       \/ user_profile = <<1>> /\ profile_versions = <<[user_profile_id |-> 1, version_number |-> 1]>>
    \* the methods of the save requests received: every list of one to MaxSaves requests
    /\ \E methods \in UNION {[1..n -> {"POST", "PUT"}] : n \in 1..MaxSaves} :
            saves = [s \in 1..Len(methods) |-> [method |-> methods[s], pc |-> "lookup", profileId |-> 0, nextVersion |-> 0]]
    /\ ScoringIdle /\ LegacyIdle /\ IngestIdle /\ RegistryIdle /\ CounterIdle

\* select from user_profile ... .limit(1).single(): some row when there is one.  PUT answers
\* 404 without a profile; POST goes on to insert one.
SaveLookup(s) ==
    /\ saves[s].pc = "lookup"
    /\ IF Len(user_profile) = 0
       THEN saves' = [saves EXCEPT ![s].pc = IF saves[s].method = "PUT" THEN "404" ELSE "insert"]
       ELSE \E n \in 1..Len(user_profile) : saves' = [saves EXCEPT ![s].pc = "update", ![s].profileId = user_profile[n]]
    /\ UNCHANGED <<user_profile, profile_versions, visa_sponsor_registry, importRun, counter, increments, inputVars, result, pc, tieUp, repeatVars, legacyVars, ingestVars>>

\* insert into user_profile (POST without a profile) or update of the existing row; an
\* error of the write is answered with 500
SaveWrite(s) ==
    /\ saves[s].pc \in {"insert", "update"}
    /\ \/ /\ saves' = [saves EXCEPT ![s].pc = "500"]
          /\ UNCHANGED user_profile
       \/ /\ saves[s].pc = "insert"
          /\ user_profile' = Append(user_profile, Len(user_profile) + 1)
          /\ saves' = [saves EXCEPT ![s].pc = "snapshot", ![s].profileId = Len(user_profile) + 1]
       \/ /\ saves[s].pc = "update"
          /\ saves' = [saves EXCEPT ![s].pc = "snapshot"]
          /\ UNCHANGED user_profile
    /\ UNCHANGED <<profile_versions, visa_sponsor_registry, importRun, counter, increments, inputVars, result, pc, tieUp, repeatVars, legacyVars, ingestVars>>

\* the highest version_number of the profile's rows, 0 when it has none
HighestVersion(profileId) ==
    LET numbers == {profile_versions[n].version_number : n \in {m \in 1..Len(profile_versions) : profile_versions[m].user_profile_id = profileId}}
    IN  IF numbers = {} THEN 0 ELSE CHOOSE v \in numbers : \A w \in numbers : w <= v

\* createVersionSnapshot, first await: the current highest version number is read and
\* nextVersion computed
SnapshotRead(s) ==
    /\ saves[s].pc = "snapshot"
    /\ saves' = [saves EXCEPT ![s].pc = "version", ![s].nextVersion = HighestVersion(saves[s].profileId) + 1]
    /\ UNCHANGED <<user_profile, profile_versions, visa_sponsor_registry, importRun, counter, increments, inputVars, result, pc, tieUp, repeatVars, legacyVars, ingestVars>>

\* createVersionSnapshot, last await: the version row is inserted, and the handler answers 200
SnapshotInsert(s) ==
    /\ saves[s].pc = "version"
    /\ profile_versions' = Append(profile_versions, [user_profile_id |-> saves[s].profileId, version_number |-> saves[s].nextVersion])
    /\ saves' = [saves EXCEPT ![s].pc = "200"]
    /\ UNCHANGED <<user_profile, visa_sponsor_registry, importRun, counter, increments, inputVars, result, pc, tieUp, repeatVars, legacyVars, ingestVars>>

NextProfile ==
    \/ \E s \in 1..Len(saves) : SaveLookup(s)
    \/ \E s \in 1..Len(saves) : SaveWrite(s)
    \/ \E s \in 1..Len(saves) : SnapshotRead(s)
    \/ \E s \in 1..Len(saves) : SnapshotInsert(s)

SpecProfile == InitProfile /\ [][NextProfile]_vars

----------------------------------------------------------------------------
(* The increment endpoint.  counter holds the count_value of the row with id 1, *)
(* the INCREMENT_SECRET of the deployment and, for the properties to compare    *)
(* with, the count before the requests.  The requests run concurrently and      *)
(* every await of the handler is a step.                                        *)

MaxIncrements == 3

InitCounter ==
    /\ \E secret \in {"", "s3cret"}, count \in {0, 41} :
            counter = [count_value |-> count, INCREMENT_SECRET |-> secret, before |-> count]
    \* the x-service-token headers of the requests received: every list of one to MaxIncrements
    /\ \E tokens \in UNION {[1..n -> {"", "s3cret", "guess"}] : n \in 1..MaxIncrements} :
            increments = [r \in 1..Len(tokens) |-> [token |-> tokens[r], pc |-> "received", current |-> 0, status |-> 0, count |-> 0]]
    /\ ScoringIdle /\ LegacyIdle /\ IngestIdle /\ RegistryIdle /\ ProfileIdle

\* if (!INCREMENT_SECRET || token !== INCREMENT_SECRET) return 401
IncrementAuthorise(r) ==
    /\ increments[r].pc = "received"
    /\ increments' = IF counter.INCREMENT_SECRET = "" \/ increments[r].token # counter.INCREMENT_SECRET
                     THEN [increments EXCEPT ![r].pc = "answered", ![r].status = 401]
                     ELSE [increments EXCEPT ![r].pc = "read"]
    /\ UNCHANGED <<counter, visa_sponsor_registry, importRun, user_profile, profile_versions, saves, inputVars, result, pc, tieUp, repeatVars, legacyVars, ingestVars>>

\* select count_value from counter where id = 1
IncrementRead(r) ==
    /\ increments[r].pc = "read"
    /\ increments' = [increments EXCEPT ![r].pc = "write", ![r].current = counter.count_value]
    /\ UNCHANGED <<counter, visa_sponsor_registry, importRun, user_profile, profile_versions, saves, inputVars, result, pc, tieUp, repeatVars, legacyVars, ingestVars>>

\* update counter set count_value = current + 1 where id = 1, and the answer 200 with count
IncrementWrite(r) ==
    /\ increments[r].pc = "write"
    /\ counter' = [counter EXCEPT !.count_value = increments[r].current + 1]
    /\ increments' = [increments EXCEPT ![r].pc = "answered", ![r].status = 200, ![r].count = increments[r].current + 1]
    /\ UNCHANGED <<visa_sponsor_registry, importRun, user_profile, profile_versions, saves, inputVars, result, pc, tieUp, repeatVars, legacyVars, ingestVars>>

NextCounter ==
    \/ \E r \in 1..Len(increments) : IncrementAuthorise(r)
    \/ \E r \in 1..Len(increments) : IncrementRead(r)
    \/ \E r \in 1..Len(increments) : IncrementWrite(r)

SpecCounter == InitCounter /\ [][NextCounter]_vars

----------------------------------------------------------------------------
(* Properties *)

Done == pc = "done"

VisaBreakdown == result.breakdown.visa.breakdown

ResumeBreakdown == result.breakdown.resume.breakdown

RelevanceBreakdown == result.breakdown.relevance.breakdown

VisaFactors == {"registry_match", "recent_activity", "community_signals", "jd_keywords", "salary_threshold"}

ResumeTiers == {"domain_match", "core_pm_match", "tools_match", "technical_match"}

RelevanceFactors == {"location", "salary", "role", "experience", "industry"}

\* the visa signal of the state with explicit_no_sponsorship set to b
WithPenalty(b) == [visaIntel EXCEPT !.explicit_no_sponsorship = b]

\* the visa total of the state's job and signal with explicit_no_sponsorship = false
TotalWithoutPenalty == calculateVisaScore(job, WithPenalty(FALSE), profile).total

\* the visa total of the state's job and signal with recent_activity_count = c
TotalWithCount(c) == calculateVisaScore(job, [visaIntel EXCEPT !.recent_activity_count = c], profile).total

\* C1: every emitted score is an integer in 0..100: the overall score, the three
\* component scores, and every per-factor score of the three breakdowns.
C1_Boundedness ==
    Done =>
        /\ result.overall_score \in 0..100
        /\ result.visa_score \in 0..100
        /\ result.resume_match_score \in 0..100
        /\ result.job_relevance_score \in 0..100
        /\ \A f \in VisaFactors : VisaBreakdown[f].score \in 0..100
        /\ \A f \in ResumeTiers : ResumeBreakdown[f].score \in 0..100
        /\ \A f \in RelevanceFactors : RelevanceBreakdown[f].score \in 0..100

\* C1 witness: all three top-level weights are 1 and the weighted sum exceeds 100, the
\* returned overall score is 100, and the domain tier alone scores 100.
C1_Witness ==
    /\ Done
    /\ config.visa_score_weight = Num(100) /\ config.resume_score_weight = Num(100) /\ config.relevance_score_weight = Num(100)
    /\ result.visa_score + result.resume_match_score + result.job_relevance_score > 100
    /\ result.overall_score = 100
    /\ ResumeBreakdown.domain_match.score = 100

\* a top-level weight exactly as supplied; only an absent one takes its default
SuppliedWeight(w, default) == IF IsNum(w) THEN NumVal(w) ELSE default

\* the weighted sum, in hundredths, with the caller's weights as supplied
SuppliedSum ==
    result.visa_score * SuppliedWeight(config.visa_score_weight, 40)
    + result.resume_match_score * SuppliedWeight(config.resume_score_weight, 35)
    + result.job_relevance_score * SuppliedWeight(config.relevance_score_weight, 25)

\* C2 (as claimed): for top-level weights in [0,1], 0 included, the overall score is the
\* clamped rounding of the weighted sum taken with the caller's weights exactly as
\* supplied; only an absent weight takes its default.
C2_WeightsAsSupplied ==
    Done => result.overall_score \in {Min(100, Max(0, RoundDouble(SuppliedSum, 100, h))) : h \in BOOLEAN}

\* the rows of the decision table, in order
TableAction(overall, visa) ==
    CASE overall >= 85 /\ visa >= 80 -> [action |-> "APPLY NOW", priority |-> "HIGH", confidence |-> "Very High"]
      [] ~(overall >= 85 /\ visa >= 80) /\ overall >= 75 /\ visa >= 60 -> [action |-> "STRONGLY CONSIDER", priority |-> "HIGH", confidence |-> "High"]
      [] ~(overall >= 85 /\ visa >= 80) /\ ~(overall >= 75 /\ visa >= 60) /\ overall >= 65 -> [action |-> "CONSIDER", priority |-> "MEDIUM", confidence |-> "Moderate"]
      [] ~(overall >= 75 /\ visa >= 60) /\ overall < 65 /\ overall >= 50 -> [action |-> "REVIEW CAREFULLY", priority |-> "LOW", confidence |-> "Low"]
      [] overall < 50 -> [action |-> "SKIP", priority |-> "VERY LOW", confidence |-> "Very Low"]

\* C3: the recommendation is the first matching row of the decision table read on the
\* returned overall_score and visa_score; (85, 80) gives APPLY NOW and (84, 80) gives
\* STRONGLY CONSIDER.
C3_DecisionTable ==
    Done =>
        /\ result.recommendation = TableAction(result.overall_score, result.visa_score)
        /\ (result.overall_score = 85 /\ result.visa_score = 80) => result.recommendation.action = "APPLY NOW"
        /\ (result.overall_score = 84 /\ result.visa_score = 80) => result.recommendation.action = "STRONGLY CONSIDER"

\* C3 witness: a result on the inclusive boundary, overall 85 with visa 80.
C3_Witness == Done /\ result.overall_score = 85 /\ result.visa_score = 80 /\ result.recommendation.action = "APPLY NOW"

\* C4 (as claimed): with explicit_no_sponsorship the visa total is strictly smaller than
\* the total of the same signal without it, and equals max(0, that total - 30).
C4_StrictPenalty ==
    (Done /\ visaIntel.explicit_no_sponsorship) =>
        /\ result.visa_score < TotalWithoutPenalty
        /\ result.visa_score = Max(0, TotalWithoutPenalty - 30)

\* C4 (amended): with explicit_no_sponsorship the visa total equals max(0, t - 30), t
\* being the total of the same signal without it; it is strictly smaller than t when
\* t > 0 and equal to it (both 0) when t = 0.
C4_PenaltyDominance ==
    (Done /\ visaIntel.explicit_no_sponsorship) =>
        /\ result.visa_score = Max(0, TotalWithoutPenalty - 30)
        /\ TotalWithoutPenalty > 0 => result.visa_score < TotalWithoutPenalty
        /\ TotalWithoutPenalty = 0 => result.visa_score = 0

\* C4 witness: a penalised signal whose unpenalised total is positive but below 30, so the
\* floor at 0 acts.
C4_Witness ==
    /\ Done /\ visaIntel.explicit_no_sponsorship
    /\ TotalWithoutPenalty > 0 /\ TotalWithoutPenalty < 30
    /\ result.visa_score = 0

\* the five factors and the penalty as the composition states them, each from its own input
ExpectedRegistry == IF visaIntel.registry_match THEN 40 ELSE 0

ExpectedActivity == IF visaIntel.recent_activity THEN Min(20, visaIntel.recent_activity_count * 5) ELSE 0

ExpectedCommunity == IF visaIntel.community_signals.k = "object" THEN Min(20, visaIntel.community_signals.positive_count * 2) ELSE 0

ExpectedKeywords == IF visaIntel.jd_keywords_found THEN 10 ELSE 0

ExpectedSalary ==
    IF checkSalaryThreshold(job, profile).meets_threshold THEN 10
    ELSE IF checkSalaryThreshold(job, profile).close_to_threshold THEN 5 ELSE 0

ExpectedPenalty == IF visaIntel.explicit_no_sponsorship THEN 30 ELSE 0

\* the perfect signal as the scenario describes it: registry match, activity count 4,
\* 10 positive / 0 negative community signals, keywords found, salary meeting the
\* threshold, no penalty
PerfectSignal ==
    /\ visaIntel.registry_match
    /\ visaIntel.recent_activity_count = 4
    /\ visaIntel.community_signals = [k |-> "object", positive_count |-> 10, negative_count |-> 0]
    /\ visaIntel.jd_keywords_found
    /\ checkSalaryThreshold(job, profile).meets_threshold
    /\ ~visaIntel.explicit_no_sponsorship

\* the total is the clamped sum of the five recorded factors less the penalty
RecordedComposition ==
    /\ VisaBreakdown.registry_match.score = ExpectedRegistry
    /\ VisaBreakdown.community_signals.score = ExpectedCommunity
    /\ VisaBreakdown.jd_keywords.score = ExpectedKeywords
    /\ VisaBreakdown.salary_threshold.score = ExpectedSalary
    /\ (VisaBreakdown.penalties # Undefined) = visaIntel.explicit_no_sponsorship
    /\ result.visa_score =
         Min(100, Max(0, ExpectedRegistry + VisaBreakdown.recent_activity.score + ExpectedCommunity
                         + ExpectedKeywords + ExpectedSalary - ExpectedPenalty))

C7_Monotonicity ==
    Done =>
        \A c \in 0..MaxActivityCount :
            /\ c >= visaIntel.recent_activity_count => TotalWithCount(c) >= result.visa_score
            /\ (c >= 4 /\ visaIntel.recent_activity_count >= 4) => TotalWithCount(c) = result.visa_score

\* C7 witness: a flagged signal with count 3 whose total rises at count 4 and stays there at 5.
C7_Witness ==
    /\ Done /\ visaIntel.recent_activity /\ visaIntel.recent_activity_count = 3
    /\ result.visa_score < TotalWithCount(4)
    /\ TotalWithCount(4) = TotalWithCount(5)

Rank(action) ==
    CASE action = "APPLY NOW" -> 5
      [] action = "STRONGLY CONSIDER" -> 4
      [] action = "CONSIDER" -> 3
      [] action = "REVIEW CAREFULLY" -> 2
      [] action = "SKIP" -> 1

\* the result of the state's inputs with explicit_no_sponsorship = false
Unpenalised(halfUp) == calculateMultiScore(job, profile, WithPenalty(FALSE), config, halfUp)

\* C8: if the inputs with explicit_no_sponsorship = false score visa 100 and APPLY NOW,
\* the same inputs with it true score visa 70 and a recommendation below APPLY NOW.
C8_ExplicitRejection ==
    (Done /\ visaIntel.explicit_no_sponsorship) =>
        \A h \in BOOLEAN :
            (Unpenalised(h).visa_score = 100 /\ Unpenalised(h).recommendation.action = "APPLY NOW")
                => (result.visa_score = 70 /\ Rank(result.recommendation.action) < Rank("APPLY NOW"))

\* C8 witness: a penalised perfect match: visa 70 where the unpenalised inputs give
\* visa 100 and APPLY NOW.
C8_Witness ==
    /\ Done /\ visaIntel.explicit_no_sponsorship
    /\ Unpenalised(TRUE).visa_score = 100 /\ Unpenalised(TRUE).recommendation.action = "APPLY NOW"
    /\ result.visa_score = 70
    /\ result.recommendation.action = "STRONGLY CONSIDER"

TierSum ==
    ResumeBreakdown.domain_match.score + ResumeBreakdown.core_pm_match.score
    + ResumeBreakdown.tools_match.score + ResumeBreakdown.technical_match.score

\* C9 (as claimed): for every tier weight in [0,1] the four tier scores of the breakdown
\* sum to resume_match_score exactly.
C9_SumEqualsTotal == Done => TierSum = result.resume_match_score

\* C9 (amended): resume_match_score is the sum of the four tier scores of the breakdown
\* capped at 100: it equals the sum exactly when the sum is at most 100, and is 100
\* when the sum is larger (tier weights above maxPoints/100).
C9_RoundTrip ==
    Done =>
        /\ result.resume_match_score = Min(100, TierSum)
        /\ TierSum <= 100 => result.resume_match_score = TierSum
        /\ TierSum > 100 => result.resume_match_score = 100

\* C9 witness: the four recorded tiers sum to more than 100 and the total is 100.
C9_Witness == Done /\ TierSum > 100 /\ result.resume_match_score = 100

\* a tier at full match under the weight maxPoints/100 (in hundredths: maxPoints) scores maxPoints
FullCredit(tier, weight) ==
    (weight = ResumeBreakdown[tier].max /\ ResumeBreakdown[tier].match_percentage = 100)
        => ResumeBreakdown[tier].score = ResumeBreakdown[tier].max

\* C10 (as claimed): in each of the four tiers, the weight maxPoints/100 (0.50, 0.30,
\* 0.15, 0.05) at a match of 100% gives the tier maximum (50, 30, 15, 5).
C10_WeightCoupling ==
    Done =>
        /\ FullCredit("domain_match", result.breakdown.weights.domain_skills_weight)
        /\ FullCredit("core_pm_match", result.breakdown.weights.core_pm_skills_weight)
        /\ FullCredit("tools_match", result.breakdown.weights.tools_skills_weight)
        /\ FullCredit("technical_match", result.breakdown.weights.tech_skills_weight)

\* C11: with domain_skills_weight = 0.50 (supplied or by default) and every domain skill
\* of the profile matched, the domain tier scores exactly 50, whatever the job and the
\* other weights.
C11_DomainCalibration ==
    (Done /\ result.breakdown.weights.domain_skills_weight = 50 /\ ResumeBreakdown.domain_match.match_percentage = 100)
        => ResumeBreakdown.domain_match.score = 50

\* C11 witness: a fully matched domain tier scored 50 under a supplied weight of 0.50
\* while the three other tier weights are all 1.
C11_Witness ==
    /\ Done
    /\ config.domain_skills_weight = Num(50)
    /\ config.core_pm_skills_weight = Num(100) /\ config.tools_skills_weight = Num(100) /\ config.tech_skills_weight = Num(100)
    /\ ResumeBreakdown.domain_match.match_percentage = 100
    /\ ResumeBreakdown.domain_match.score = 50

\* a perfect match: every profile skill of the four tiers matched, the full visa
\* signal, and every relevance factor at its maximum
PerfectMatch ==
    /\ \A t \in ResumeTiers : ResumeBreakdown[t].match_percentage = 100
    /\ result.visa_score = 100
    /\ RelevanceBreakdown.location.score = 25 /\ RelevanceBreakdown.salary.score = 25
    /\ RelevanceBreakdown.role.score = 25 /\ RelevanceBreakdown.experience.score = 15
    /\ RelevanceBreakdown.industry.score = 10

\* C12 (as claimed): under the default weights a perfect match scores overall_score > 85
\* and resume_match_score > 90 and is recommended APPLY NOW.
C12_PerfectMatch ==
    (Done /\ config = EmptyConfig /\ PerfectMatch) =>
        /\ result.overall_score > 85
        /\ result.resume_match_score > 90
        /\ result.recommendation.action = "APPLY NOW"

\* a skill tier of the profile that is absent or an empty list
EmptyTier(tier) == tier = Undefined \/ tier = Arr(<<>>)

AllTiersEmpty ==
    /\ EmptyTier(profile.skills_must_have_domain) /\ EmptyTier(profile.skills_must_have_core_pm)
    /\ EmptyTier(profile.skills_good_to_have) /\ EmptyTier(profile.skills_okay_to_have)

\* C13: when all four skill tiers of the profile are empty or absent, the call returns a
\* result in which every tier has 0 points (0% matched, no matched skill) and
\* resume_match_score is 0, for every job and every weight config.
C13_EmptyProfile ==
    (Done /\ AllTiersEmpty) =>
        /\ \A t \in ResumeTiers :
              /\ ResumeBreakdown[t].score = 0
              /\ ResumeBreakdown[t].match_percentage = 0
              /\ ResumeBreakdown[t].matched_skills = <<>>
        /\ result.resume_match_score = 0

\* C13 witness: a profile without skills scored 0 against a job that lists skills, under
\* tier weights of 1.
C13_Witness ==
    /\ Done /\ AllTiersEmpty
    /\ job.skills # Undefined
    /\ config.domain_skills_weight = Num(100) /\ config.core_pm_skills_weight = Num(100)
    /\ profile.skills_must_have_domain = Arr(<<>>) /\ profile.skills_good_to_have = Undefined
    /\ result.resume_match_score = 0

\* the state's profile with its four skill tiers replaced by those of q
WithTiersOf(q) ==
    [profile EXCEPT !.skills_must_have_domain = q.skills_must_have_domain,
                    !.skills_must_have_core_pm = q.skills_must_have_core_pm,
                    !.skills_good_to_have = q.skills_good_to_have,
                    !.skills_okay_to_have = q.skills_okay_to_have]

\* C14: a profile that differs from the scored one only in its four skill tiers gets the
\* same job_relevance_score with the same relevance breakdown, and the same visa score
\* with the same visa breakdown, for the same job and visa signal.
C14_TierIndependence ==
    Done =>
        \A q \in {PerfectProfile, PartialProfile, EmptyProfile} :
            /\ calculateJobRelevanceScore(job, WithTiersOf(q)) = result.breakdown.relevance
            /\ calculateJobRelevanceScore(job, WithTiersOf(q)).total = result.job_relevance_score
            /\ calculateVisaScore(job, visaIntel, WithTiersOf(q)) = result.breakdown.visa
            /\ calculateVisaScore(job, visaIntel, WithTiersOf(q)).total = result.visa_score

\* C14 witness: a scored profile with skills whose resume score is positive, while the
\* same profile without skill tiers has resume score 0 and the relevance score is 100.
C14_Witness ==
    /\ Done
    /\ profile = PerfectProfile
    /\ result.resume_match_score > 0
    /\ calculateResumeMatchScore(job, WithTiersOf(EmptyProfile), result.breakdown.weights).total = 0
    /\ result.job_relevance_score = 100

Missing(x) == x = Undefined \/ x = Null \/ x = Arr(<<>>) \/ x = Str(<<>>)

\* the returned object has every field, and each breakdown every factor with a score in range
CompleteResult ==
    /\ DOMAIN result = {"overall_score", "visa_score", "resume_match_score", "job_relevance_score", "recommendation", "breakdown"}
    /\ DOMAIN result.breakdown = {"visa", "resume", "relevance", "weights"}
    /\ DOMAIN ResumeBreakdown = ResumeTiers
    /\ DOMAIN RelevanceBreakdown = RelevanceFactors
    /\ VisaFactors \subseteq DOMAIN VisaBreakdown
    /\ result.overall_score \in 0..100
    /\ result.recommendation.action \in {"APPLY NOW", "STRONGLY CONSIDER", "CONSIDER", "REVIEW CAREFULLY", "SKIP"}
    /\ \A f \in ResumeTiers : ResumeBreakdown[f].score \in 0..100
    /\ \A f \in RelevanceFactors : RelevanceBreakdown[f].score \in 0..100
    /\ \A f \in VisaFactors : VisaBreakdown[f].score \in 0..100

LocationDataMissing ==
    \/ Missing(profile.preferred_locations) /\ Missing(profile.target_countries)
    \/ Missing(job.location) /\ Missing(job.country_code)

SalaryDataMissing ==
    \/ Missing(job.salary_min)
    \/ Missing(profile.salary_expectation)
    \/ (profile.salary_expectation # Undefined /\ Missing(profile.salary_expectation.min))

RoleDataMissing ==
    \/ Missing(profile.role_flexibility)
    \/ (profile.role_flexibility # Undefined /\ Missing(profile.role_flexibility.preferred) /\ Missing(profile.role_flexibility.acceptable))

\* the neutral and zero values of the factors other than location
NeutralValues ==
    /\ Missing(profile.skills_must_have_domain) => ResumeBreakdown.domain_match.score = 0
    /\ Missing(profile.skills_must_have_core_pm) => ResumeBreakdown.core_pm_match.score = 0
    /\ Missing(profile.skills_good_to_have) => ResumeBreakdown.tools_match.score = 0
    /\ Missing(profile.skills_okay_to_have) => ResumeBreakdown.technical_match.score = 0
    /\ (Missing(job.skills) /\ Missing(job.domains)) => result.resume_match_score = 0
    /\ SalaryDataMissing => (RelevanceBreakdown.salary.score = 12 /\ RelevanceBreakdown.salary.match_type = "unknown")
    /\ (Missing(job.domains) \/ Missing(profile.industries)) => RelevanceBreakdown.industry.score = 3
    /\ Missing(visaIntel.community_signals) => VisaBreakdown.community_signals.score = 0
    /\ (Missing(job.experience_min) /\ Missing(job.experience_max)) => RelevanceBreakdown.experience.score = 15
    /\ RoleDataMissing => RelevanceBreakdown.role.score = 10

\* a factor none of whose data is missing keeps the value it has on the complete inputs
OthersComputed ==
    /\ ~LocationDataMissing => RelevanceBreakdown.location.score = 25
    /\ ~SalaryDataMissing => RelevanceBreakdown.salary.score = 25
    /\ ~RoleDataMissing => RelevanceBreakdown.role.score = 25
    /\ (~Missing(job.domains) /\ ~Missing(profile.industries)) => RelevanceBreakdown.industry.score = 10
    /\ (~Missing(job.skills) /\ ~Missing(profile.skills_must_have_core_pm)) => ResumeBreakdown.core_pm_match.score = 18
    /\ ~Missing(visaIntel.community_signals) => VisaBreakdown.community_signals.score = 20
    /\ VisaBreakdown.registry_match.score = 40

AcceptedImports(u) ==
    Cardinality({k \in 1..Len(bulk.urls) : bulk.urls[k] = u /\ bulk.status[k] = "successful"})
    + Cardinality({m \in 1..Len(manual) : manual[m].url = u /\ manual[m].pc = "stored"})

\* C17 (as claimed): across every interleaving of ingest requests job_raw never holds two
\* rows with the same source_url: once a url has a row, every further import of it is
\* rejected and not stored.
C17_NoDuplicateRows ==
    \A u \in Urls :
        /\ job_raw[u] <= 1
        /\ AcceptedImports(u) <= 1

LegacyText == toLowerCase(OrEmptyStr(normalized.normalized_text))

\* the text carries a negative signal: one of the negative keywords
NegativeSignal == \E n \in 1..Len(visaKeywords.negative) : includes(LegacyText, visaKeywords.negative[n])

\* the text explicitly offers sponsorship: an offer keyword and no negative signal
ExplicitOffer == (\E n \in 1..Len(visaKeywords.high) : includes(LegacyText, visaKeywords.high[n])) /\ ~NegativeSignal

VisaKeyword == \E n \in 1..Len(visaKeywords.medium) : includes(LegacyText, visaKeywords.medium[n])

\* the posting names a company that the registry lists as a sponsor
KnownSponsor ==
    /\ ~Missing(normalized.company)
    /\ FindCompany(toLowerCase(OrEmptyStr(normalized.company)), companyRegistry) # 0
    /\ companyRegistry[FindCompany(toLowerCase(OrEmptyStr(normalized.company)), companyRegistry)].sponsors_visa

\* C18 (as claimed): the legacy score is in 90-100 only when the text explicitly offers
\* sponsorship, in 50-89 when it only has a visa keyword or the company is a known
\* sponsor, and in 0-49 whenever the text carries a negative signal or there is no visa
\* information at all.
C18_ScoreBands ==
    legacy # NoResult =>
        /\ legacy.visa_score_int \in 0..100
        /\ legacy.visa_score_int >= 90 => ExplicitOffer
        /\ NegativeSignal => legacy.visa_score_int \in 0..49
        /\ (~NegativeSignal /\ ~ExplicitOffer /\ (VisaKeyword \/ KnownSponsor)) => legacy.visa_score_int \in 50..89
        /\ (~NegativeSignal /\ ~ExplicitOffer /\ ~VisaKeyword /\ ~KnownSponsor) => legacy.visa_score_int \in 0..49

\* the currency factor as the conversion table states it, in thousandths
CurrencyFactor(currency) ==
    CASE currency = Str(<<"G","B","P">>) -> 1000
      [] currency = Str(<<"U","S","D">>) -> 790
      [] currency = Str(<<"E","U","R">>) -> 850
      [] currency = Str(<<"A","U","D">>) -> 520
      [] currency = Str(<<"C","A","D">>) -> 580
      [] currency = Str(<<"S","E","K">>) -> 74
      [] currency = Str(<<"A","E","D">>) -> 210
      [] OTHER -> 1000

ExpectedMinMissing == Missing(profile.salary_expectation) \/ Missing(profile.salary_expectation.min)

\* the salary score by the bands: s is the job's salary min times the currency factor
\* and m the expected min, both in thousandths
SalaryBand(s, m) == IF s >= m THEN 25 ELSE IF 10 * s >= 9 * m THEN 15 ELSE 0

\* C19 (as claimed): the salary score is 12 when the expected min or the job's salary min
\* is missing; otherwise, whatever the expected max (null included), it is 25 when
\* s >= min, 15 when 0.9 * min <= s < min and 0 when s < 0.9 * min.
C19_SalaryBands ==
    Done =>
        IF ExpectedMinMissing \/ Missing(job.salary_min)
        THEN RelevanceBreakdown.salary.score = 12
        ELSE RelevanceBreakdown.salary.score =
                 SalaryBand(NumVal(job.salary_min) * CurrencyFactor(job.salary_currency), 1000 * NumVal(profile.salary_expectation.min))

\* the experience bounds: a bound takes its default only when it is absent
BoundOrDefault(x, default) == IF IsNum(x) THEN NumVal(x) ELSE default

ExperienceBand(u, min, max) ==
    IF min <= u /\ u <= max THEN 15
    ELSE IF max < u /\ u <= max + 2 THEN 12
    ELSE IF min - 2 <= u /\ u < min THEN 10
    ELSE 0

\* C20 (as claimed): with max defaulting to 99 and min to 0 only when absent, the
\* experience score is 15 when min <= u <= max, 12 when max < u <= max + 2, 10 when
\* min - 2 <= u < min, and 0 otherwise; a job with experience_max = 0 is scored against 0.
C20_ExperienceBands ==
    Done =>
        RelevanceBreakdown.experience.score =
            ExperienceBand(BoundOrDefault(profile.years_of_experience, 0), BoundOrDefault(job.experience_min, 0), BoundOrDefault(job.experience_max, 99))

\* the positions of the user skills that contain, or are contained in, some job tag
MatchedAt(U, J) == {i \in 1..Len(U) : \E n \in 1..Len(J) : includes(J[n], U[i]) \/ includes(U[i], J[n])}

\* the user skills at those positions, in the order of the list
MatchedOf(U, J) ==
    LET Hit(u) == \E n \in 1..Len(J) : includes(J[n], u) \/ includes(u, J[n])
    IN  SelectSeq(U, Hit)

PercentageOf(U, J) == IF Len(U) = 0 THEN 0 ELSE RoundDiv(100 * Cardinality(MatchedAt(U, J)), Len(U))

\* the lower-cased skill list of the profile that a tier of the breakdown is about
TierSkills(t) ==
    MapLower(OrEmptyArr(CASE t = "domain_match" -> profile.skills_must_have_domain
                          [] t = "core_pm_match" -> profile.skills_must_have_core_pm
                          [] t = "tools_match" -> profile.skills_good_to_have
                          [] OTHER -> profile.skills_okay_to_have))

\* the lower-cased job tags a tier is matched against
TierTags(t) ==
    IF t = "domain_match"
    THEN MapLower(OrEmptyArr(job.skills)) \o MapLower(OrEmptyArr(job.domains))
    ELSE MapLower(OrEmptyArr(job.skills))

\* C21: the match percentage of every tier is round(100 * matched / |U|), where matched counts
\* the user skills that contain or are contained in some job tag, compared in lower case, and is
\* 0 for an empty tier; matched_skills lists exactly those skills; the domain tier is matched
\* against job.skills with job.domains, the other three tiers against job.skills only.
C21_SkillMatch ==
    Done => \A t \in ResumeTiers :
        /\ ResumeBreakdown[t].match_percentage = PercentageOf(TierSkills(t), TierTags(t))
        /\ ResumeBreakdown[t].matched_skills = MatchedOf(TierSkills(t), TierTags(t))

\* a domain tier matched in part: one skill through a job tag it contains, one through a job
\* domain, one spelled twice, and a technical tier whose skill no job tag matches
C21_Witness ==
    /\ Done
    /\ job.skills = Arr(<<<<"p","a","y">>>>)
    /\ job.domains # Undefined
    /\ ResumeBreakdown.domain_match.match_percentage = 67
    /\ Len(ResumeBreakdown.domain_match.matched_skills) = 2
    /\ ResumeBreakdown.technical_match.match_percentage = 0
    /\ Len(TierSkills("technical_match")) > 0

\* some preferred location of the profile is a substring of the job's location, in lower case
PreferredCityHit ==
    \E n \in 1..Len(OrEmptyArr(profile.preferred_locations)) :
        includes(toLowerCase(OrEmptyStr(job.location)), toLowerCase(OrEmptyArr(profile.preferred_locations)[n]))

\* the job's country code is one of the profile's target countries, in upper case
TargetCountryHit ==
    \E n \in 1..Len(OrEmptyArr(profile.target_countries)) :
        toUpperCase(OrEmptyArr(profile.target_countries)[n]) = toUpperCase(OrEmptyStr(job.country_code))

LocationByPriority ==
    RelevanceBreakdown.location.score =
        IF PreferredCityHit THEN 25 ELSE IF TargetCountryHit THEN 20 ELSE IF job.is_remote THEN 15 ELSE 0

NoLocationNoCountry == OrEmptyStr(job.location) = <<>> /\ OrEmptyStr(job.country_code) = <<>>

\* C22: the location score is 25 on a preferred-location substring match, else 20 on a target
\* country, else 15 for a remote job, else 0, the first matching rule winning; and a job with
\* no location and no country code never scores 25 or 20.
C22_LocationPriority ==
    Done => /\ LocationByPriority
            /\ NoLocationNoCountry => RelevanceBreakdown.location.score \notin {25, 20}

\* the job's title in lower case, '' when the title is missing
TitleOf == toLowerCase(OrEmptyStr(job.title))

\* the lower-cased entries of a list of the profile's role flexibility, none when it is missing
RolesOf(list) ==
    IF profile.role_flexibility.k = "object"
    THEN {toLowerCase(OrEmptyArr(profile.role_flexibility[list])[n]) : n \in 1..Len(OrEmptyArr(profile.role_flexibility[list]))}
    ELSE {}

\* the title contains the role or the role contains the title
ContainOneAnother(role) == includes(TitleOf, role) \/ includes(role, TitleOf)

\* C23: for every title, empty and missing ones included, the role score is 25 when the title
\* and a preferred role contain one another, else 20 when that holds of an acceptable role,
\* else 10 when the title contains 'product', 'manager', 'pm' or 'lead', else 0.
C23_RoleFactor ==
    Done => RelevanceBreakdown.role.score =
                IF \E r \in RolesOf("preferred") : ContainOneAnother(r) THEN 25
                ELSE IF \E r \in RolesOf("acceptable") : ContainOneAnother(r) THEN 20
                ELSE IF \E kw \in {<<"p","r","o","d","u","c","t">>, <<"m","a","n","a","g","e","r">>, <<"p","m">>, <<"l","e","a","d">>} : includes(TitleOf, kw) THEN 10
                ELSE 0

\* a missing title is contained in every role: with no preferred role and one acceptable role
\* it scores 20, through the containment of the title in the role
C23_Witness ==
    /\ Done
    /\ job.title = Undefined
    /\ RolesOf("preferred") = {}
    /\ RolesOf("acceptable") # {}
    /\ RelevanceBreakdown.role.score = 20

\* the job's domains and the profile's industries as sets of lower-cased entries
DomainSet == {toLowerCase(OrEmptyArr(job.domains)[n]) : n \in 1..Len(OrEmptyArr(job.domains))}

IndustrySet == {toLowerCase(OrEmptyArr(profile.industries)[n]) : n \in 1..Len(OrEmptyArr(profile.industries))}

CommonKeywords == {<<"f","i","n","t","e","c","h">>, <<"f","i","n","a","n","c","e">>, <<"b","a","n","k","i","n","g">>, <<"p","a","y","m","e","n","t","s">>, <<"t","e","c","h">>}

\* C24: the industry score is 10 when a profile industry equals a job domain without regard to
\* case, else 7 when a keyword of the fixed list is an entry of both lists, else 3; never 0.
C24_IndustryFactor ==
    Done => /\ RelevanceBreakdown.industry.score =
                    IF DomainSet \cap IndustrySet # {} THEN 10
                    ELSE IF CommonKeywords \cap DomainSet \cap IndustrySet # {} THEN 7
                    ELSE 3
            /\ RelevanceBreakdown.industry.score # 0

\* a domain and an industry that are equal only when case is ignored score 10
C24_Witness ==
    /\ Done
    /\ job.domains = Arr(<<<<"F","i","n","t","e","c","h">>>>)
    /\ profile.industries = Arr(<<<<"F","I","N","T","E","C","H">>, <<"r","e","t","a","i","l">>>>)
    /\ RelevanceBreakdown.industry.score = 10

\* C29: calculateIndustryMatch returns 10 or 3 and nothing else; the 'related' outcome with
\* score 7 is never returned, a common keyword that is an entry of both lists being an equal
\* pair of entries already.
C29_IndustryRange ==
    Done => /\ RelevanceBreakdown.industry.score \in {10, 3}
            /\ RelevanceBreakdown.industry.match_type \in {"perfect", "neutral"}
            /\ CommonKeywords \cap DomainSet \cap IndustrySet # {} => RelevanceBreakdown.industry.match_type = "perfect"

\* a keyword of the list inside an entry of each list, with no equal entries, scores 3
C29_Witness ==
    /\ Done
    /\ job.domains = Arr(<<<<"f","i","n","t","e","c","h"," ","s","a","a","s">>>>)
    /\ profile.industries = Arr(<<<<"f","i","n","t","e","c","h">>>>)
    /\ RelevanceBreakdown.industry.score = 3

\* the salary threshold of a country in thousandths of a pound, 0 for a country outside the
\* table: GB 38700, NL 45000, DE 45300, SE 156000 SEK at 0.074, AU 70000, CA 54000
ThresholdMilli(code) ==
    CASE code = Str(<<"G","B">>) -> 38700 * 1000
      [] code = Str(<<"N","L">>) -> 45000 * 1000
      [] code = Str(<<"D","E">>) -> 45300 * 1000
      [] code = Str(<<"S","E">>) -> 156000 * 74
      [] code = Str(<<"A","U">>) -> 70000 * 1000
      [] code = Str(<<"C","A">>) -> 54000 * 1000
      [] OTHER -> 0

\* the job's minimum salary converted by the currency table, in thousandths of a pound
SalaryMilli == normalizeSalaryToGBP(NumVal(job.salary_min), job.salary_currency)

\* C25: the salary-threshold factor of the visa score is 10 when the converted salary reaches
\* the country's threshold, 5 when it reaches nine tenths of it, else 0; and it is 0 when the
\* country is missing or outside the table or the salary is missing.
C25_SalaryThreshold ==
    Done => VisaBreakdown.salary_threshold.score =
                IF ThresholdMilli(job.country_code) = 0 \/ ~IsNum(job.salary_min) THEN 0
                ELSE IF SalaryMilli >= ThresholdMilli(job.country_code) THEN 10
                ELSE IF 10 * SalaryMilli >= 9 * ThresholdMilli(job.country_code) THEN 5
                ELSE 0

\* a Swedish job paying exactly nine tenths of the converted threshold scores 5
C25_Witness ==
    /\ Done
    /\ job.country_code = Str(<<"S","E">>)
    /\ job.salary_min = Num(140400)
    /\ job.salary_currency = Str(<<"S","E","K">>)
    /\ 10 * SalaryMilli = 9 * ThresholdMilli(job.country_code)
    /\ VisaBreakdown.salary_threshold.score = 5

\* the number of entries of a list that are the url u
CountOf(list, u) == Cardinality({n \in 1..Len(list) : list[n] = u})

\* the handler has answered 200
Answered200 == bulk.response.status = 200

\* every submitted url is counted exactly once, the errors list has one entry per failed url,
\* and the bulk_import_jobs row is completed with the counts of the response
AccountingAt200 ==
    /\ bulk.response.total = Len(bulk.urls)
    /\ bulk.response.successful + bulk.response.failed = bulk.response.total
    /\ \A k \in 1..Len(bulk.urls) :
            CountOf(bulk.results.successful, bulk.urls[k]) + CountOf(bulk.results.failed, bulk.urls[k]) = CountOf(bulk.urls, bulk.urls[k])
    /\ Len(bulk.response.errors) = bulk.response.failed
    /\ [n \in 1..Len(bulk.response.errors) |-> bulk.response.errors[n].url] = bulk.results.failed
    /\ bulk.row.status = "completed"
    /\ bulk.row.total_urls = bulk.response.total
    /\ bulk.row.successful_urls = bulk.response.successful
    /\ bulk.row.failed_urls = bulk.response.failed
    /\ bulk.row.error_log = bulk.response.errors

\* the progress of the import job stays within its total
ProgressWithinTotal == bulk.row # NoRow => bulk.row.processed_urls <= bulk.row.total_urls

\* a step never lowers the progress of the import job
ProgressNeverDecreases == (bulk.row # NoRow /\ bulk'.row # NoRow) => bulk'.row.processed_urls >= bulk.row.processed_urls

OfRunCountry(key) == key[2] = importRun.countryCode

Fetched(key) == InSeq(importRun.companies, key[1])

\* C27: when a run of importRegistry(C) ends with status 'success', every row of C whose
\* company is in the fetched list is active and last seen in this fetch, every previously seen
\* row of C absent from the list is inactive, and the rows of other countries are as before;
\* a run that ends with status 'failed' has deactivated no row.
C27_Deactivation ==
    /\ importRun.pc = "success" =>
        \A key \in RegistryKeys :
            /\ (OfRunCountry(key) /\ visa_sponsor_registry[key].present /\ Fetched(key)) =>
                    (visa_sponsor_registry[key].is_active /\ visa_sponsor_registry[key].last_seen = importRun.fetchId)
            /\ (OfRunCountry(key) /\ visa_sponsor_registry[key].present /\ ~Fetched(key) /\ visa_sponsor_registry[key].last_seen # 0) =>
                    ~visa_sponsor_registry[key].is_active
            /\ ~OfRunCountry(key) => visa_sponsor_registry[key] = importRun.before[key]
    /\ importRun.pc = "failed" =>
        \A key \in RegistryKeys : importRun.before[key].is_active => visa_sponsor_registry[key].is_active

\* the version numbers of a profile's rows, one entry per row
VersionsOf(profileId) == {n \in 1..Len(profile_versions) : profile_versions[n].user_profile_id = profileId}

\* a step adds one row for each save that answers 200 in it, and no other row
OneRowPerSave ==
    Len(profile_versions') - Len(profile_versions) = Cardinality({s \in 1..Len(saves) : saves[s].pc # "200" /\ saves'[s].pc = "200"})

\* C28: every successful save has added exactly one profile_versions row, numbered one above
\* the profile's previous highest version, so that the version numbers of a profile are unique
\* and consecutive from 1, also when saves overlap in time.
UniqueConsecutive ==
    \A p \in 1..Len(user_profile) :
        /\ \A n, m \in VersionsOf(user_profile[p]) : n # m => profile_versions[n].version_number # profile_versions[m].version_number
        /\ {profile_versions[n].version_number : n \in VersionsOf(user_profile[p])} = 1..Cardinality(VersionsOf(user_profile[p]))

C28_VersionTrail == []UniqueConsecutive /\ [][OneRowPerSave]_vars

\* the requests that have answered 200
Incremented == {r \in 1..Len(increments) : increments[r].pc = "answered" /\ increments[r].status = 200}

\* no request is under way
AllAnswered == \A r \in 1..Len(increments) : increments[r].pc = "answered"

\* after the N requests that answered 200 the count is N higher and the returned counts differ
CountedOnce ==
    AllAnswered =>
        /\ counter.count_value = counter.before + Cardinality(Incremented)
        /\ \A r, q \in Incremented : r # q => increments[r].count # increments[q].count

\* a request whose token is not the non-empty secret answers 401
Rejected ==
    \A r \in 1..Len(increments) :
        (increments[r].pc = "answered" /\ counter.INCREMENT_SECRET # "" /\ increments[r].token # counter.INCREMENT_SECRET) => increments[r].status = 401

\* the step that answers 401 leaves the counter as it is
RejectionLeavesCounter ==
    (\E r \in 1..Len(increments) : increments[r].status # 401 /\ increments'[r].status = 401) => counter' = counter

\* C30: after any N authorised increments that each answer 200, in any interleaving, the
\* count_value is exactly N higher than before and the N returned counts are pairwise distinct;
\* a request whose x-service-token is not the non-empty INCREMENT_SECRET answers 401 and leaves
\* the counter unchanged.
C30_CounterIncrement == []CountedOnce /\ []Rejected /\ [][RejectionLeavesCounter]_vars

=============================================================================
